---- MODULE Spec2Model ----
(***************************************************************************)
(* Verification model of ZerePy: the autonomous agent loop                 *)
(* (src/src/agent.py), the per-connection dispatch entry point             *)
(* perform_action (src/src/connections/*.py) and the message-queue         *)
(* callback (src/broker.py).                                               *)
(*                                                                         *)
(* Three specifications share this module:                                 *)
(*   Spec       - ZerePyAgent.loop, one step per external call or sleep    *)
(*   ConnSpec   - <Connection>.perform_action for every connection class   *)
(*   BrokerSpec - broker.callback for every kind of message body           *)
(***************************************************************************)
EXTENDS Integers, Sequences, FiniteSets, TLC

(***************************************************************************)
(* Bounds of the model (not program constants).                            *)
(***************************************************************************)
LoopDelay == 2          \* agent_dict["loop_delay"], seconds
TweetInterval == 4      \* twitter_config["tweet_interval"], seconds
MaxLatency == 1         \* seconds an external call may take
MaxTimeline == 2        \* tweets one read-timeline may return
MaxReplies == 3         \* replies one get-tweet-replies may return

(***************************************************************************)
(* Program constants.                                                      *)
(***************************************************************************)
FallbackDelay == 60             \* agent.py:257  time.sleep(... else 60)
OwnTweetRepliesCount == 2       \* agent.py:42   default own_tweet_replies_count

Min(a, b) == IF a < b THEN a ELSE b

(***************************************************************************)
(* ZerePyAgent.loop                                                        *)
(***************************************************************************)
VARIABLES
    pc,                 \* position of loop(): see LoopPcs
    registered,         \* the connections of the registry, in registration order
    llm_providers,      \* what connection_manager.get_model_providers() returns
    env_username,       \* TWITTER_USERNAME in the environment
    model_provider,     \* self.model_provider
    username,           \* self.username
    task_weights,       \* self.task_weights, by task name
    timeline_tweets,    \* self.state["timeline_tweets"]: absent, None or a list
    success,            \* local success of the iteration
    action_name,        \* local action_name of the iteration
    tweet,              \* local tweet popped from the timeline
    since_last_tweet,   \* time.time() - last_tweet_time, saturated at Cap
    since_sample,       \* time.time() - current_time (line 169), saturated at Cap
    since_post,         \* time since the last post-tweet dispatch returned, saturated
    sample_gap,         \* current_time - last_tweet_time when line 169 sampled the clock
    iter_end,           \* how the iteration in progress (or just finished) ended
    last_sleep,         \* seconds slept since the last iteration began, 0 if none
    dispatched,         \* the external call made by the step just taken
    dispatched_to,      \* connection_name of that call, "" if none
    interrupted         \* a KeyboardInterrupt has been delivered

loopVars == <<pc, registered, dispatched_to, llm_providers, env_username, model_provider, username,
              task_weights, timeline_tweets, success, action_name, tweet,
              since_last_tweet, since_sample, since_post, sample_gap,
              iter_end, last_sleep, dispatched, interrupted>>

(***************************************************************************)
(* One dispatch through the registry into a Connection's perform_action    *)
(***************************************************************************)
VARIABLES
    req_conn,           \* connection name of the request
    req_action,         \* action name of the request
    has_key,            \* the connection's credentials are in the environment
    net_ok,             \* the network call of is_configured succeeds
    params_ok,          \* Action.validate_params finds no error
    op_ok,              \* the action's underlying operation succeeds
    cpc,                \* "request", "coroutine" (returned, not awaited) or "done"
    outcome,            \* what the caller of perform_action gets
    net_calls,          \* network or chain calls made for the request
    impl_invoked,       \* the action's implementation was entered
    op_failed,          \* the underlying operation was attempted and failed
    conn_reached        \* a Connection's perform_action was entered

connVars == <<req_conn, req_action, has_key, net_ok, params_ok, op_ok, cpc,
              outcome, net_calls, impl_invoked, op_failed, conn_reached>>

(***************************************************************************)
(* broker.callback                                                         *)
(***************************************************************************)
VARIABLES
    queue,              \* message bodies not yet delivered to callback
    last_body,          \* the body callback handled last
    broker_error,       \* what callback's except branch caught, "none" if nothing
    named_missing,      \* the fields the caught error names as missing
    call_reached,       \* line 31, the call of agent.perform_action, was reached
    agent_dispatched    \* agent.perform_action ran (reached the registry)

brokerVars == <<queue, last_body, broker_error, named_missing, call_reached,
                agent_dispatched>>

(***************************************************************************)
(* The weights random.choices is given (agent.py:163)                      *)
(***************************************************************************)
VARIABLES
    hour,               \* the hour of the day at which the task is selected
    base_weights,       \* self.task_weights as __init__ read them
    sel_weights,        \* the weights= argument of random.choices
    wpc                 \* "idle", "select" or "chosen"

weightVars == <<hour, base_weights, sel_weights, wpc>>

(***************************************************************************)
(* Parameter validation inside perform_action                              *)
(***************************************************************************)
VARIABLES
    v_required,         \* the parameters the Action declares required
    v_params,           \* each declared parameter in kwargs: ok, missing, wrong_type
    v_error,            \* what perform_action raised, "none" if nothing
    v_named,            \* the violations the error message names
    vpc                 \* "idle", "call" or "done"

validateVars == <<v_required, v_params, v_error, v_named, vpc>>

(***************************************************************************)
(* is_configured(verbose)                                                  *)
(***************************************************************************)
VARIABLES
    k_conn,             \* the connection asked
    k_verbose,          \* the verbose argument passed
    k_key,              \* its credentials are in the environment
    k_net,              \* its network call succeeds
    k_result,           \* "true", "false" or the exception the call raised
    kpc                 \* "idle", "call" or "done"

configVars == <<k_conn, k_verbose, k_key, k_net, k_result, kpc>>

(***************************************************************************)
(* ZerePyAgent.__init__                                                    *)
(***************************************************************************)
VARIABLES
    a_file_ok,          \* agents/<name>.json exists and parses
    a_fields,           \* the keys of agent_dict among REQUIRED_FIELDS
    a_twitter,          \* agent_dict["config"] has an entry named twitter
    a_error,            \* what __init__ raised, "none" if nothing
    a_named,            \* the fields the error names as missing
    a_manager,          \* ConnectionManager(agent_dict["config"]) was constructed
    apc                 \* "idle", "new" or "done"

ctorVars == <<a_file_ok, a_fields, a_twitter, a_error, a_named, a_manager, apc>>

unitVars == <<weightVars, validateVars, configVars, ctorVars>>

(* One call of a connection's validate_config. *)
VARIABLES
    c_conn,             \* the connection class whose validate_config is called
    c_config,           \* per configuration field: "ok", "missing" or "wrong_type"
    c_error,            \* validate_config raised
    c_named,            \* the field names the error message holds
    cvpc                \* "idle", "call" or "done"

cfgvVars == <<c_conn, c_config, c_error, c_named, cvpc>>

(* One DebridgeConnection and the calls of its two bridge methods. *)
VARIABLES
    pending_tx,         \* self.pending_tx: NoPending or a create-tx response
    b_next,             \* responses received so far (the next one's number)
    b_created,          \* numbers of the responses whose create_bridge_tx returned
    b_sent,             \* per response number: send-transaction calls that returned
    b_op,               \* the last call: "none", "create" or "execute"
    b_conn,             \* the `connection` argument of the last call
    b_raised,           \* the last call raised DebridgeConnectionError
    b_dispatched        \* the response the last call handed to send-transaction, 0 if none

debridgeVars == <<pending_tx, b_next, b_created, b_sent, b_op, b_conn,
                  b_raised, b_dispatched>>

(* One DiscordGateway: its socket, its heartbeat loop tasks and the last   *)
(* handler that ran.                                                       *)
VARIABLES
    ws,                 \* self.ws: "none", "open" or "closed"
    heartbeat_interval, \* self.heartbeat_interval in <<seconds, milliseconds>>
    heartbeat_tasks,    \* heartbeat loop tasks created and still running
    session_id,         \* self.session_id: 0 for None, else the id READY gave
    sequence,           \* self.sequence: 0 for None, else the last `s`
    g_handler,          \* the last handler that ran, "none" before connect()
    g_first,            \* op of the first message read on the newest socket
    g_hello_ms,         \* its d.heartbeat_interval in ms, 0 if it has none
    g_started,          \* the last handler created a heartbeat loop task
    g_sent,             \* the ops the last handler sent, in order
    g_raised,           \* the last handler raised
    g_resumable,        \* the `d` of the INVALID_SESSION the last handler got
    g_resume,           \* <<session_id, seq>> of the RESUME the last handler sent
    g_processing,       \* _process_messages: "idle", "running", "returned", "raised"
    g_inbox             \* messages delivered on self.ws and not yet received

gatewayVars == <<ws, heartbeat_interval, heartbeat_tasks, session_id, sequence,
                 g_handler, g_first, g_hello_ms, g_started, g_sent, g_raised,
                 g_resumable, g_resume, g_processing, g_inbox>>

(* The two bridge action handlers and the agent state they share. *)
VARIABLES
    pending_bridge_tx,  \* agent.state["pending_bridge_tx"], "absent" if no key
    h_timeline,         \* agent.state["timeline_tweets"], the loop's entry
    h_handler,          \* the last handler called: "none", "create", "execute"
    h_argc,             \* len(kwargs["params"]) of the last call
    h_dispatched,       \* the last call reached connection_manager.perform_action
    h_tx_data,          \* the params["tx_data"] of that dispatch
    h_result,           \* what that dispatch gave, "none" if there was none
    h_status            \* the status of the dict the handler returned

handlerVars == <<pending_bridge_tx, h_timeline, h_handler, h_argc, h_dispatched, h_tx_data,
                 h_result, h_status>>

(* One GitHubConnection and the calls of get_repo. *)
VARIABLES
    repo_files,         \* the files of the repository (unchanged in a run)
    stats_cache,        \* self.stats_cache['content'], NoCache for {}
    last_update,        \* self.last_update is set
    since_update,       \* clock ticks since last_update, saturated
    gh_step,            \* the last step: "none", "tick" or "get_repo"
    gh_outcome,         \* of the last get_repo: "cached", "fetched" or "failed"
    gh_requests,        \* the last get_repo requested /repos/<repo>
    gh_returned,        \* the string the last get_repo returned
    gh_fetch_returned   \* the string returned by the fetch that filled the cache

githubVars == <<repo_files, stats_cache, last_update, since_update, gh_step,
                gh_outcome, gh_requests, gh_returned, gh_fetch_returned>>

(* MonadConnection._initialize_web3, one loop iteration per step. *)
VARIABLES
    m_expected,         \* self.chain_id, from the configuration
    m_web3,             \* self._web3: "None" or "set"
    m_attempt,          \* the loop variable `attempt` of the next iteration
    m_log,              \* what each attempt so far found
    m_connected,        \* is_connected() of the provider now in self._web3
    m_chain,            \* eth.chain_id that provider reports, 0 if not read
    mpc                 \* "idle", "loop", "returned" or "raised"

monadVars == <<m_expected, m_web3, m_attempt, m_log, m_connected, m_chain, mpc>>

(* One call of ContextAnalyzer.analyze. *)
VARIABLES
    z_text,             \* the words of the text, in order
    z_context_types,    \* result["context_types"]
    z_primary,          \* result["primary_context"]
    z_response,         \* result["response"]
    z_visualize,        \* result["should_visualize"]
    z_raised,           \* analyze raised
    zpc                 \* "idle", "call" or "done"

analyzerVars == <<z_text, z_context_types, z_primary, z_response, z_visualize,
                  z_raised, zpc>>

(* The send budget of DiscordGateway. *)
VARIABLES
    rate_limit_remaining,   \* self._rate_limit_remaining
    rate_limit_reset,       \* self._rate_limit_reset
    loop_time,              \* asyncio.get_event_loop().time()
    r_waited,               \* the last send slept for the reset time first
    r_last                  \* "none", "identify", "heartbeat" or "failed"

rateVars == <<rate_limit_remaining, rate_limit_reset, loop_time, r_waited,
              r_last>>

extVars == <<cfgvVars, debridgeVars, gatewayVars, handlerVars, githubVars,
        rateVars, monadVars, analyzerVars>>

vars == <<loopVars, connVars, brokerVars, unitVars, extVars>>

(* A step of the agent loop leaves the other two subsystems alone. *)
LoopFrame == UNCHANGED <<connVars, brokerVars, unitVars, extVars>>

(* The task names the loop has a branch for, and one it has none for. *)
Tasks == {"post-tweet", "reply-to-tweet", "like-tweet", "idle"}

(* The weights an agent definition gives its tasks. *)
WeightValues == {0, 10}

(* str.lower() on the names of the model. *)
Lower(s) == IF s = "Bot" THEN "bot" ELSE s

(* A tweet of the timeline: id 0 stands for a missing or empty id. *)
NoTweet == [id |-> 0, author |-> ""]
Tweets == {[id |-> 0, author |-> "alice"], [id |-> 1, author |-> "alice"],
           [id |-> 3, author |-> "Bot"]}
Reply == [id |-> 4, author |-> "alice"]

SeqsUpTo(S, n) == UNION {[1..k -> S] : k \in 0..n}

Absent == [kind |-> "absent", items |-> <<>>]
NoneValue == [kind |-> "none", items |-> <<>>]
List(items) == [kind |-> "list", items |-> items]

(* Elapsed times are kept saturated at the only threshold the code compares *)
(* them with, tweet_interval.                                               *)
Cap == TweetInterval
Aged(x, d) == Min(x + d, Cap)
Latencies == 0..MaxLatency

(* agent.py:153  the replenish condition *)
NeedsReplenishNoEmpty(tl) == tl.kind \in {"absent", "none"}
NeedsReplenish(tl) == tl.kind \in {"absent", "none"} \/ Len(tl.items) = 0

(* agent.py:196, 237  the timeline holds a tweet to pop *)
HasTweets(tl) == tl.kind = "list" /\ Len(tl.items) > 0

(* agent.py:365  len(self.state.get("timeline_tweets", [])) raises on None *)
AgentStatusRaises(tl) == tl.kind = "none"

(* agent.py:163  random.choices raises when the weights sum to zero *)
ChoicesRaises(w) == \A t \in Tasks : w[t] = 0
SelectableAll(w) == Tasks
Selectable(w) == {t \in Tasks : w[t] > 0}

(* agent.py:170  current_time - last_tweet_time >= self.tweet_interval *)
CooldownElapsedAlways(age) == TRUE
CooldownElapsed(age) == age >= TweetInterval

(* agent.py:257  time.sleep(self.loop_delay if success else 60) *)
SleepDurationShort(s) == LoopDelay
SleepDuration(s) == IF s THEN LoopDelay ELSE FallbackDelay

(* agent.py:262  time.sleep(self.loop_delay) in the except branch *)
ExceptDelayFallback == FallbackDelay
ExceptDelay == LoopDelay

(* agent.py:204  tweet.get('author_username', '').lower() == self.username *)
IsOwnTweetExact(t, u) == t.author = u
IsOwnTweet(t, u) == Lower(t.author) = u

(* agent.py:213  replies[:self.own_tweet_replies_count] *)
Truncated(replies) == SubSeq(replies, 1, Min(Len(replies), OwnTweetRepliesCount))

(* Time passing by d seconds. *)
Tick(d) ==
    /\ since_last_tweet' = Aged(since_last_tweet, d)
    /\ since_sample' = Aged(since_sample, d)
    /\ since_post' = Aged(since_post, d)

NoTick == UNCHANGED <<since_last_tweet, since_sample, since_post>>

Config == <<registered, env_username, task_weights>>
Setup == <<llm_providers, model_provider, username>>

RunningPcs == {"top", "read_timeline", "choose", "post_llm", "post_send",
               "get_replies", "reply_llm", "reply_send", "like_send",
               "sleep", "except"}

(* What the body of each class's is_llm_provider returns: True in        *)
(* MiraConnection, False in the others; OpenAIConnection, which declares *)
(* none, is the provider the agent loop prompts.                         *)
DeclaredLlmProvider(c) == c \in {"mira", "openai"}

(* What evaluating connection.is_llm_provider gives.  Every class declares  *)
(* it under @property except DebridgeConnection (debridge_connection.py:35), *)
(* whose attribute is therefore the bound method itself.  OpenAIConnection   *)
(* declares none and inherits the one of BaseConnection.                     *)
FlagValue(c) ==
    CASE c \in {"mira", "openai"} -> "true"
      [] c = "debridge" -> "method"
      [] OTHER -> "false"

(* The truth value Python gives the flag: a bound method is truthy. *)
IsLlmProvider(c) == FlagValue(c) \in {"true", "method"}

(* get_model_providers: the providers among the registered connections, in *)
(* registration order.                                                     *)
GetModelProviders(reg) == SelectSeq(reg, IsLlmProvider)

(* The registries an agent definition's config builds. *)
Registries == {<<"firecrawl", "monad">>, <<"mira", "github", "openai">>,
               <<"debridge", "openai">>}

LoopInit ==
    /\ pc = "init"
    /\ registered \in Registries
    /\ llm_providers = <<>>
    /\ env_username \in {"", "Bot"}
    /\ task_weights \in [Tasks -> WeightValues]
    /\ model_provider = ""
    /\ username = ""
    /\ timeline_tweets = Absent
    /\ success = FALSE
    /\ action_name = ""
    /\ tweet = NoTweet
    /\ since_last_tweet = Cap
    /\ since_sample = 0
    /\ since_post = Cap
    /\ sample_gap = Cap
    /\ iter_end = "none"
    /\ last_sleep = 0
    /\ dispatched = "none"
    /\ dispatched_to = ""
    /\ interrupted = FALSE

(* _setup_llm_provider without the check of line 63. *)
SetupLlmProviderNoCheck ==
    /\ LoopFrame
    /\ pc = "init"
    /\ llm_providers' = GetModelProviders(registered)
    /\ model_provider' = IF Len(llm_providers') = 0 THEN "" ELSE llm_providers'[1]
    /\ username' = Lower(env_username)
    /\ pc' = IF Lower(env_username) = "" THEN "setup_failed" ELSE "countdown"
    /\ dispatched' = "none"
    /\ dispatched_to' = ""
    /\ UNCHANGED <<Config, timeline_tweets, success, action_name, tweet,
                   since_last_tweet, since_sample, since_post, sample_gap, iter_end, last_sleep, interrupted>>

(* agent.py:60-71, 106-107  _setup_llm_provider: raises ValueError without a *)
(* provider or without TWITTER_USERNAME.                                     *)
SetupLlmProvider ==
    /\ LoopFrame
    /\ pc = "init"
    /\ llm_providers' = GetModelProviders(registered)
    /\ IF Len(llm_providers') = 0
       THEN /\ pc' = "setup_failed"
            /\ UNCHANGED <<model_provider, username>>
       ELSE /\ model_provider' = llm_providers'[1]
            /\ username' = Lower(env_username)
            /\ pc' = IF Lower(env_username) = "" THEN "setup_failed" ELSE "countdown"
    /\ dispatched' = "none"
    /\ dispatched_to' = ""
    /\ UNCHANGED <<Config, timeline_tweets, success, action_name, tweet,
                   since_last_tweet, since_sample, since_post, sample_gap, iter_end, last_sleep, interrupted>>

(* agent.py:109-122  the start-up countdown and the loop's locals; *)
(* last_tweet_time = 0 leaves the first cooldown elapsed.          *)
Countdown ==
    /\ LoopFrame
    /\ pc = "countdown"
    /\ pc' = "top"
    /\ since_last_tweet' = Cap
    /\ dispatched' = "none"
    /\ dispatched_to' = ""
    /\ UNCHANGED <<Config, Setup, timeline_tweets, success, action_name, tweet,
                   since_sample, since_post, sample_gap, iter_end,
                   last_sleep, interrupted>>

(* agent.py:113-117  Ctrl-C during the countdown is outside the try block: *)
(* KeyboardInterrupt leaves loop().                                        *)
InterruptCountdown ==
    /\ LoopFrame
    /\ pc = "countdown"
    /\ pc' = "interrupt_raised"
    /\ interrupted' = TRUE
    /\ dispatched' = "none"
    /\ dispatched_to' = ""
    /\ UNCHANGED <<Config, Setup, timeline_tweets, success, action_name, tweet,
                   since_last_tweet, since_sample, since_post, sample_gap, iter_end, last_sleep>>

(* agent.py:126-159  the head of one iteration: success = False, the status *)
(* display, the rate-limit checks (tweet_limit_reset and                    *)
(* timeline_limit_reset stay None, so neither branch is taken) and the      *)
(* replenish condition.  Line 128 samples current_time.                     *)
IterationStart ==
    /\ LoopFrame
    /\ pc = "top"
    /\ success' = FALSE
    /\ last_sleep' = 0
    /\ dispatched' = "none"
    /\ dispatched_to' = ""
    /\ IF AgentStatusRaises(timeline_tweets)
       THEN pc' = "except" /\ iter_end' = "exception"
       ELSE /\ iter_end' = "running"
            /\ pc' = IF NeedsReplenish(timeline_tweets) THEN "read_timeline" ELSE "choose"
    /\ since_sample' = 0
    /\ UNCHANGED <<Config, Setup, timeline_tweets, action_name, tweet, sample_gap,
                   since_last_tweet, since_post, interrupted>>

(* agent.py:155-159  read-timeline: the result, whatever it is, is stored. *)
ReadTimeline ==
    /\ LoopFrame
    /\ pc = "read_timeline"
    /\ dispatched' = "read-timeline"
    /\ dispatched_to' = "twitter"
    /\ \E d \in Latencies : Tick(d)
    /\ \/ \E r \in {NoneValue} \cup {List(l) : l \in SeqsUpTo(Tweets, MaxTimeline)} :
            /\ timeline_tweets' = r
            /\ pc' = "choose"
            /\ UNCHANGED iter_end
       \/ /\ pc' = "except"
          /\ iter_end' = "exception"
          /\ UNCHANGED timeline_tweets
    /\ UNCHANGED <<Config, Setup, success, action_name, tweet, sample_gap, last_sleep, interrupted>>


(* agent.py:190-193  the post is skipped: a log line and `continue`. *)
CooldownSkipConsuming ==
    /\ pc' = "top"
    /\ iter_end' = "cooldown"
    /\ timeline_tweets' = List(<<>>)
    /\ UNCHANGED tweet
CooldownSkip ==
    /\ pc' = "top"
    /\ iter_end' = "cooldown"
    /\ UNCHANGED <<tweet, timeline_tweets>>

(* agent.py:163-252  random.choices and the branch of the chosen task, up to *)
(* its first external call.  The three `continue` statements (lines 193,    *)
(* 201, 242) return to the head of the loop.                                *)
ChooseAction ==
    /\ LoopFrame
    /\ pc = "choose"
    /\ dispatched' = "none"
    /\ dispatched_to' = ""
    /\ UNCHANGED <<Config, Setup, success, last_sleep,
                   interrupted, since_last_tweet, since_post>>
    /\ IF ChoicesRaises(task_weights)
       THEN /\ pc' = "except"
            /\ iter_end' = "exception"
            /\ UNCHANGED <<action_name, tweet, timeline_tweets, since_sample,
                           sample_gap>>
       ELSE \E t \in Selectable(task_weights) :
            /\ action_name' = t
            /\ CASE t = "post-tweet" ->
                    /\ since_sample' = 0
                    /\ sample_gap' = since_last_tweet
                    /\ IF CooldownElapsed(since_last_tweet)
                       THEN /\ pc' = "post_llm"
                            /\ UNCHANGED <<iter_end, tweet, timeline_tweets>>
                       ELSE CooldownSkip
                 [] t \in {"reply-to-tweet", "like-tweet"} ->
                    /\ UNCHANGED <<since_sample, sample_gap>>
                    /\ IF HasTweets(timeline_tweets)
                       THEN /\ tweet' = Head(timeline_tweets.items)
                            /\ timeline_tweets' = List(Tail(timeline_tweets.items))
                            /\ IF tweet'.id = 0
                               THEN pc' = "top" /\ iter_end' = "no_id"
                               ELSE /\ UNCHANGED iter_end
                                    /\ pc' = IF t = "like-tweet" THEN "like_send"
                                             ELSE IF IsOwnTweet(tweet', username)
                                                  THEN "get_replies"
                                                  ELSE "reply_llm"
                       ELSE /\ pc' = "sleep"
                            /\ UNCHANGED <<tweet, timeline_tweets, iter_end>>
                 [] OTHER ->
                    /\ pc' = "sleep"
                    /\ UNCHANGED <<tweet, timeline_tweets, iter_end, since_sample,
                                   sample_gap>>

(* agent.py:177-179 and 223-226  prompt_llm: non-empty text, empty text or an *)
(* exception.                                                               *)
PromptLlm(here, next) ==
    /\ LoopFrame
    /\ pc = here
    /\ dispatched' = "generate-text"
    /\ dispatched_to' = model_provider
    /\ \E d \in Latencies : Tick(d)
    /\ \/ pc' = next /\ UNCHANGED iter_end
       \/ pc' = "sleep" /\ UNCHANGED iter_end
       \/ pc' = "except" /\ iter_end' = "exception"
    /\ UNCHANGED <<Config, Setup, timeline_tweets, success, action_name, tweet,
                   sample_gap, last_sleep, interrupted>>

PostLlm == PromptLlm("post_llm", "post_send")

ReplyLlm == PromptLlm("reply_llm", "reply_send")

(* post-tweet with last_tweet_time = current_time moved before the call. *)
PostSendStampFirst ==
    /\ LoopFrame
    /\ pc = "post_send"
    /\ dispatched' = "post-tweet"
    /\ dispatched_to' = "twitter"
    /\ \E d \in Latencies :
        /\ since_last_tweet' = Aged(since_sample, d)
        /\ since_sample' = Aged(since_sample, d)
        /\ \/ since_post' = 0 /\ success' = TRUE /\ pc' = "sleep"
              /\ UNCHANGED iter_end
           \/ since_post' = Aged(since_post, d) /\ pc' = "except"
              /\ iter_end' = "exception" /\ UNCHANGED success
    /\ UNCHANGED <<Config, Setup, timeline_tweets, action_name, tweet,
                   sample_gap, last_sleep, interrupted>>

(* agent.py:182-189  twitter post-tweet, then last_tweet_time = current_time *)
(* and success = True.                                                      *)
PostSend ==
    /\ LoopFrame
    /\ pc = "post_send"
    /\ dispatched' = "post-tweet"
    /\ dispatched_to' = "twitter"
    /\ \E d \in Latencies :
        \/ /\ since_last_tweet' = Aged(since_sample, d)
           /\ since_sample' = Aged(since_sample, d)
           /\ since_post' = 0
           /\ success' = TRUE
           /\ pc' = "sleep"
           /\ UNCHANGED iter_end
        \/ /\ Tick(d)
           /\ pc' = "except"
           /\ iter_end' = "exception"
           /\ UNCHANGED success
    /\ UNCHANGED <<Config, Setup, timeline_tweets, action_name, tweet,
                   sample_gap, last_sleep, interrupted>>

(* agent.py:207-214  get-tweet-replies for an own tweet, then `continue`. *)
GetReplies ==
    /\ LoopFrame
    /\ pc = "get_replies"
    /\ dispatched' = "get-tweet-replies"
    /\ dispatched_to' = "twitter"
    /\ \E d \in Latencies : Tick(d)
    /\ \/ \E n \in 0..MaxReplies :
            /\ timeline_tweets' =
                 List(timeline_tweets.items \o Truncated([i \in 1..n |-> Reply]))
            /\ pc' = "top"
            /\ iter_end' = "own_tweet"
       \/ /\ pc' = "except"
          /\ iter_end' = "exception"
          /\ UNCHANGED timeline_tweets
    /\ UNCHANGED <<Config, Setup, success, action_name, tweet, sample_gap, last_sleep, interrupted>>

(* agent.py:228-234 and 246-252  twitter reply-to-tweet / like-tweet, then *)
(* success = True.                                                         *)
SendAction(here, name) ==
    /\ LoopFrame
    /\ pc = here
    /\ dispatched' = name
    /\ dispatched_to' = "twitter"
    /\ \E d \in Latencies : Tick(d)
    /\ \/ success' = TRUE /\ pc' = "sleep" /\ UNCHANGED iter_end
       \/ pc' = "except" /\ iter_end' = "exception" /\ UNCHANGED success
    /\ UNCHANGED <<Config, Setup, timeline_tweets, action_name, tweet, sample_gap, last_sleep, interrupted>>

ReplySend == SendAction("reply_send", "reply-to-tweet")

LikeSend == SendAction("like_send", "like-tweet")

(* agent.py:255-257  the sleep that ends an iteration. *)
LoopSleep ==
    /\ LoopFrame
    /\ pc = "sleep"
    /\ last_sleep' = SleepDuration(success)
    /\ Tick(SleepDuration(success))
    /\ pc' = "top"
    /\ iter_end' = "slept"
    /\ dispatched' = "none"
    /\ dispatched_to' = ""
    /\ UNCHANGED <<Config, Setup, timeline_tweets, success, action_name, tweet,
                   sample_gap, interrupted>>

(* agent.py:259-262  except Exception: log, sleep loop_delay, next iteration. *)
ExceptReraise ==
    /\ LoopFrame
    /\ pc = "except"
    /\ pc' = "crashed"
    /\ dispatched' = "none"
    /\ dispatched_to' = ""
    /\ NoTick
    /\ UNCHANGED <<Config, Setup, timeline_tweets, success, action_name, tweet,
                   sample_gap, iter_end, last_sleep,
                   interrupted>>

(* The except branch putting the tweet in hand back on the queue. *)
LoopExceptRequeue ==
    /\ LoopFrame
    /\ pc = "except"
    /\ last_sleep' = ExceptDelay
    /\ Tick(ExceptDelay)
    /\ pc' = "top"
    /\ dispatched' = "none"
    /\ dispatched_to' = ""
    /\ timeline_tweets' = IF timeline_tweets.kind = "list" /\ tweet # NoTweet
                          THEN List(<<tweet>> \o timeline_tweets.items)
                          ELSE timeline_tweets
    /\ UNCHANGED <<Config, Setup, success, action_name, tweet,
                   sample_gap, iter_end, interrupted>>

LoopExcept ==
    /\ LoopFrame
    /\ pc = "except"
    /\ last_sleep' = ExceptDelay
    /\ Tick(ExceptDelay)
    /\ pc' = "top"
    /\ dispatched' = "none"
    /\ dispatched_to' = ""
    /\ UNCHANGED <<Config, Setup, timeline_tweets, success, action_name, tweet,
                   sample_gap, iter_end, interrupted>>

(* agent.py:124, 264-266  KeyboardInterrupt anywhere inside the outer try: *)
(* log and return.                                                        *)
Interrupt ==
    /\ LoopFrame
    /\ pc \in RunningPcs
    /\ pc' = "stopped"
    /\ interrupted' = TRUE
    /\ dispatched' = "none"
    /\ dispatched_to' = ""
    /\ NoTick
    /\ UNCHANGED <<Config, Setup, timeline_tweets, success, action_name, tweet,
                   sample_gap, iter_end, last_sleep>>

(***************************************************************************)
(* Connections: perform_action of every connection class, reached through  *)
(* ZerePyAgent.perform_action and the connection registry.                  *)
(***************************************************************************)
ConnectionNames == {"mira", "openai", "monad", "firecrawl", "pinecone",
                    "debridge", "solana", "github"}

(* register_actions of each class: the keys of self.actions. *)
MiraActions == {"generate-text", "check-model", "list-models"}
OpenAIActions == {"generate-text", "check-model", "set-model"}
MonadActions == {"get-balance", "transfer", "get-address", "swap"}
FirecrawlActions == {"scrape-page"}
PineconeActions == {"upload-embeddings", "query-embeddings"}
DebridgeActions == {"create-bridge-tx", "execute-bridge-tx", "get-order-status",
                    "get-order-details", "cancel-tx", "extcall-cancel-tx",
                    "get-supported-chains", "get-token-list"}
SolanaActions == {"send-tokens", "swap"}
GitHubActions == {"get-repo"}

ActionsOf(c) ==
    CASE c = "mira" -> MiraActions
      [] c = "openai" -> OpenAIActions
      [] c = "monad" -> MonadActions
      [] c = "firecrawl" -> FirecrawlActions
      [] c = "pinecone" -> PineconeActions
      [] c = "debridge" -> DebridgeActions
      [] c = "solana" -> SolanaActions
      [] c = "github" -> GitHubActions
      [] OTHER -> {}

(* What one perform_action call did: its outcome for the caller, the network *)
(* or chain calls it made, and whether the action's implementation ran.      *)
Result(o, n, i) == [outcome |-> o, net |-> n, impl |-> i, failed |-> FALSE]

Errors == {"UnknownConnection", "UnknownAction", "NotConfigured", "Validation",
           "ExecutionError", "TypeError"}

(* The implementation of an action: one network or chain call, whose failure *)
(* is raised (wrapped or not) unless the method swallows it.                 *)
Raising(ok, n) ==
    [outcome |-> IF ok THEN "value" ELSE "ExecutionError", net |-> n + 1,
     impl |-> TRUE, failed |-> ~ok]
Swallowing(ok, n) ==
    [outcome |-> IF ok THEN "value" ELSE "failure_value", net |-> n + 1,
     impl |-> TRUE, failed |-> ~ok]

(* mira_connection.py:130-148  is_configured: no key, or list_models() fails *)
MiraIsConfigured(key, net) == key /\ net
MiraConfigCalls(key, net) == IF key THEN 1 ELSE 0

(* mira_connection.py:212-241  every implementation raises MiraAPIError *)
MiraPerform(a, key, net, pok, ook) ==
    IF a \notin MiraActions THEN Result("UnknownAction", 0, FALSE)
    ELSE IF ~MiraIsConfigured(key, net)
         THEN Result("NotConfigured", MiraConfigCalls(key, net), FALSE)
    ELSE IF ~pok THEN Result("Validation", MiraConfigCalls(key, net), FALSE)
    ELSE Raising(ook, MiraConfigCalls(key, net))

(* openai_connection.py:61-87  is_configured: no key, or models.list() fails *)
OpenAIIsConfigured(key, net) == key /\ net

(* openai_connection.py:89-127  no configuration check, no validation;     *)
(* check_model cannot fail, set_model returns the error as a string.       *)
OpenAIPerformNoRaise(a, key, net, pok, ook) ==
    IF a \in OpenAIActions THEN Raising(ook, 0) ELSE Result("value", 0, FALSE)
OpenAIPerform(a, key, net, pok, ook) ==
    IF a \in OpenAIActions
    THEN (CASE a = "check-model" -> Result("value", 0, TRUE)
            [] a = "set-model" -> Swallowing(ook, 0)
            [] OTHER -> Raising(ook, 0))
    ELSE Result("UnknownAction", 0, FALSE)

(* monad_connection.py:161-183  is_configured: is_connected(), get_balance() *)
MonadIsConfigured(key, net) == key /\ net
MonadConfigCalls(key, net) == IF ~key THEN 0 ELSE IF net THEN 2 ELSE 1

(* monad_connection.py:185-217, 476-493  get_address and get_balance return *)
(* a message or 0 on failure; transfer and swap re-raise.                   *)
MonadPerform(a, key, net, pok, ook) ==
    IF a \notin MonadActions THEN Result("UnknownAction", 0, FALSE)
    ELSE IF ~MonadIsConfigured(key, net)
         THEN Result("NotConfigured", MonadConfigCalls(key, net), FALSE)
    ELSE IF ~pok THEN Result("Validation", MonadConfigCalls(key, net), FALSE)
    ELSE IF a \in {"get-address", "get-balance"}
         THEN Swallowing(ook, MonadConfigCalls(key, net))
    ELSE Raising(ook, MonadConfigCalls(key, net))

(* firecrawl_connection.py:97-111  is_configured: FIRECRAWL_API_KEY present *)
FirecrawlIsConfigured(key, net) == key

(* firecrawl_connection.py:114-138  no configuration check; scrape_page     *)
(* raises FirecrawlAPIError, also for the missing key (_get_client).        *)
FirecrawlPerform(a, key, net, pok, ook) ==
    IF a \notin FirecrawlActions THEN Result("UnknownAction", 0, FALSE)
    ELSE IF ~pok THEN Result("Validation", 0, FALSE)
    ELSE IF ~key THEN [Result("ExecutionError", 0, TRUE) EXCEPT !.failed = TRUE]
    ELSE Raising(ook, 0)

(* pinecone_connection.py:72-74  is_configured: self.client is not None,   *)
(* which __init__ always leaves true.                                      *)
PineconeIsConfigured(key, net) == TRUE

(* pinecone_connection.py:47-55, 80-93  no configuration check; the        *)
(* implementations have no try block.                                      *)
PineconePerform(a, key, net, pok, ook) ==
    IF a \notin PineconeActions THEN Result("UnknownAction", 0, FALSE)
    ELSE IF ~pok THEN Result("Validation", 0, FALSE)
    ELSE Raising(ook, 0)

(* debridge_connection.py:134-144  is_configured: self.connections non-empty *)
DebridgeIsConfigured(key, net) == key

(* debridge_connection.py:146-305  every implementation raises              *)
(* DebridgeConnectionError; invalid parameters raise it too.                *)
DebridgePerform(a, key, net, pok, ook) ==
    IF a \notin DebridgeActions THEN Result("UnknownAction", 0, FALSE)
    ELSE IF ~DebridgeIsConfigured(key, net) THEN Result("NotConfigured", 0, FALSE)
    ELSE IF ~pok THEN Result("Validation", 0, FALSE)
    ELSE Raising(ook, 0)

(* solana_connection.py:263-276  no configuration check (the class defines *)
(* no is_configured); "swap" has no method swap, so getattr raises;        *)
(* send_tokens is a coroutine function: calling it only creates the       *)
(* coroutine.                                                              *)
SolanaIsConfigured(key, net) == TRUE
SolanaPerform(a, key, net, pok, ook) ==
    IF a \notin SolanaActions THEN Result("UnknownAction", 0, FALSE)
    ELSE IF ~pok THEN Result("Validation", 0, FALSE)
    ELSE IF a = "swap" THEN Result("ExecutionError", 0, FALSE)
    ELSE Result("coroutine", 0, FALSE)

(* github_connection.py:182-184  is_configured: self.token is not None,    *)
(* which __init__ always leaves true.                                      *)
GitHubIsConfigured(key, net) == TRUE

(* github_connection.py:56-155, 196-208  the body of the coroutine          *)
(* perform_action: get_repo returns "" on any failure.                      *)
GitHubPerform(a, key, net, pok, ook) ==
    IF a \notin GitHubActions THEN Result("UnknownAction", 0, FALSE)
    ELSE IF ~pok THEN Result("Validation", 0, FALSE)
    ELSE Swallowing(ook, 0)

IsConfigured(c, key, net) ==
    CASE c = "mira" -> MiraIsConfigured(key, net)
      [] c = "openai" -> OpenAIIsConfigured(key, net)
      [] c = "monad" -> MonadIsConfigured(key, net)
      [] c = "firecrawl" -> FirecrawlIsConfigured(key, net)
      [] c = "pinecone" -> PineconeIsConfigured(key, net)
      [] c = "debridge" -> DebridgeIsConfigured(key, net)
      [] c = "solana" -> SolanaIsConfigured(key, net)
      [] c = "github" -> GitHubIsConfigured(key, net)
      [] OTHER -> FALSE

(* The connection registry: lookup of an unknown name is a hard error. *)
Registry == ConnectionNames
RegistryHas(name) == name \in Registry

(* agent.py:101-102  ZerePyAgent.perform_action returns what the registry's *)
(* perform_action returns and lets its exceptions through.                  *)
AgentPerformActionSwallow(r) ==
    IF r.outcome \in Errors THEN [r EXCEPT !.outcome = "value"] ELSE r
AgentPerformAction(r) == r

ConnInit ==
    /\ req_conn \in ConnectionNames \cup {"nope"}
    /\ req_action \in ActionsOf(req_conn) \cup {"nope"}
    /\ has_key \in BOOLEAN
    /\ net_ok \in BOOLEAN
    /\ params_ok \in BOOLEAN
    /\ op_ok \in BOOLEAN
    /\ cpc = "request"
    /\ outcome = "none"
    /\ net_calls = 0
    /\ impl_invoked = FALSE
    /\ op_failed = FALSE
    /\ conn_reached = FALSE

ConnInputs == <<req_conn, req_action, has_key, net_ok, params_ok, op_ok>>

(* The request ends with result r of the connection's perform_action. *)
Finish(r) ==
    /\ outcome' = AgentPerformAction(r).outcome
    /\ net_calls' = net_calls + r.net
    /\ impl_invoked' = r.impl
    /\ op_failed' = r.failed
    /\ cpc' = IF AgentPerformAction(r).outcome = "coroutine" THEN "coroutine" ELSE "done"
    /\ UNCHANGED ConnInputs

(* A synchronous perform_action, entered through the registry. *)
Dispatch(c, r) ==
    /\ cpc = "request"
    /\ req_conn = c
    /\ RegistryHas(req_conn)
    /\ conn_reached' = TRUE
    /\ Finish(r)

(* Registry.perform_action with a name that is not registered. *)
UnknownConnection ==
    /\ cpc = "request"
    /\ ~RegistryHas(req_conn)
    /\ conn_reached' = FALSE
    /\ Finish(Result("UnknownConnection", 0, FALSE))

MiraPerformAction ==
    Dispatch("mira", MiraPerform(req_action, has_key, net_ok, params_ok, op_ok))

OpenAIPerformAction ==
    Dispatch("openai", OpenAIPerform(req_action, has_key, net_ok, params_ok, op_ok))

MonadPerformAction ==
    Dispatch("monad", MonadPerform(req_action, has_key, net_ok, params_ok, op_ok))

FirecrawlPerformAction ==
    Dispatch("firecrawl", FirecrawlPerform(req_action, has_key, net_ok, params_ok, op_ok))

PineconePerformAction ==
    Dispatch("pinecone", PineconePerform(req_action, has_key, net_ok, params_ok, op_ok))

DebridgePerformAction ==
    Dispatch("debridge", DebridgePerform(req_action, has_key, net_ok, params_ok, op_ok))

SolanaPerformAction ==
    Dispatch("solana", SolanaPerform(req_action, has_key, net_ok, params_ok, op_ok))

(* github_connection.py:196  async def: the call returns a coroutine and *)
(* runs nothing of the body.                                             *)
GitHubPerformAction ==
    Dispatch("github", Result("coroutine", 0, FALSE))

(* api.py:15  the caller awaits the coroutine: the body of GitHub's       *)
(* perform_action runs.  solana_connection.py:278-298: an awaited          *)
(* send_tokens raises SolanaRPCError on failure.                           *)
AwaitCoroutine ==
    /\ cpc = "coroutine"
    /\ UNCHANGED conn_reached
    /\ IF req_conn = "github"
       THEN Finish(GitHubPerform(req_action, has_key, net_ok, params_ok, op_ok))
       ELSE Finish(Raising(op_ok, 0))

ConnFrame == UNCHANGED <<loopVars, brokerVars, unitVars, extVars>>

(***************************************************************************)
(* broker.py: the queue consumer.                                          *)
(***************************************************************************)
MaxMessages == 2        \* messages waiting in the queue at once

(* broker.py:6 *)
RequiredFields == {"connection", "action", "args"}

(* A message body by what json.loads makes of it: not JSON at all, an     *)
(* object with the keys `has`, an array with the elements `has`, a string *)
(* in which the names `has` occur, or a number.                           *)
Bodies ==
    {[kind |-> k, has |-> h] : k \in {"object", "array", "string"},
                               h \in SUBSET RequiredFields}
    \cup {[kind |-> "number", has |-> {}], [kind |-> "not_json", has |-> {}]}

NoBody == [kind |-> "none", has |-> {}]

(* send.py:13  the only publisher of the repository sends 'Hello World!'. *)
HelloWorld == [kind |-> "not_json", has |-> {}]

(* broker.py:29  json.loads(body) *)
JsonLoadsRaises(b) == b.kind = "not_json"

(* broker.py:7  `field not in data`: key, element or substring test; it  *)
(* raises TypeError for a number.                                        *)
InRaises(b) == b.kind = "number"
MissingFields(b) == RequiredFields \ b.has

(* broker.py:31  data['connection'] on a list or a string raises TypeError *)
SubscriptRaises(b) == b.kind # "object"

(* agent.py:101  perform_action(self, connection, action, **kwargs) takes *)
(* two positional arguments; broker.py:31 passes three.                   *)
PositionalParams == 2
PositionalArgs == 3
CallBinds == PositionalArgs <= PositionalParams

(* broker.py:26-35  callback: what it caught, which fields the error names, *)
(* whether line 31 reached the call and whether the agent dispatched.       *)
Handled(e, named, reached, disp) ==
    [error |-> e, named |-> named, reached |-> reached, dispatched |-> disp]

CallbackResult(b) ==
    IF JsonLoadsRaises(b) THEN Handled("JSONDecodeError", {}, FALSE, FALSE)
    ELSE IF InRaises(b) THEN Handled("TypeError", {}, FALSE, FALSE)
    ELSE IF MissingFields(b) # {}
         THEN Handled("KeyError", MissingFields(b), FALSE, FALSE)
    ELSE IF SubscriptRaises(b) THEN Handled("TypeError", {}, FALSE, FALSE)
    ELSE IF ~CallBinds THEN Handled("TypeError", {}, TRUE, FALSE)
    ELSE Handled("none", {}, TRUE, TRUE)

BrokerFrame == UNCHANGED <<loopVars, connVars, unitVars, extVars>>

BrokerIdle ==
    /\ queue = <<>>
    /\ last_body = NoBody
    /\ broker_error = "none"
    /\ named_missing = {}
    /\ call_reached = FALSE
    /\ agent_dispatched = FALSE

(* A publisher puts a message on queue 'stuff'. *)
Publish ==
    /\ BrokerFrame
    /\ Len(queue) < MaxMessages
    /\ \E b \in Bodies \cup {HelloWorld} : queue' = Append(queue, b)
    /\ UNCHANGED <<last_body, broker_error, named_missing, call_reached,
                   agent_dispatched>>

(* broker.py:26-35, 40  basic_consume(auto_ack=True) delivers the next *)
(* message to callback.                                               *)
Callback ==
    /\ BrokerFrame
    /\ Len(queue) > 0
    /\ queue' = Tail(queue)
    /\ last_body' = Head(queue)
    /\ broker_error' = CallbackResult(Head(queue)).error
    /\ named_missing' = CallbackResult(Head(queue)).named
    /\ call_reached' = CallbackResult(Head(queue)).reached
    /\ agent_dispatched' = CallbackResult(Head(queue)).dispatched

(***************************************************************************)
(* agent.py:163  the weights of the task selection.                        *)
(***************************************************************************)
Hours == 0..23

(* random.choices(self.tasks, weights=self.task_weights, k=1): the weights *)
(* are the ones __init__ read, whatever the hour; loop() never reads the   *)
(* time of day.                                                            *)
SelectionWeights(w, h) == w

WeightFrame == UNCHANGED <<loopVars, connVars, brokerVars, validateVars,
                           configVars, ctorVars, extVars>>

WeightIdle ==
    /\ hour = 0
    /\ base_weights = [t \in Tasks |-> 0]
    /\ sel_weights = [t \in Tasks |-> 0]
    /\ wpc = "idle"

WeightInit ==
    /\ hour \in Hours
    /\ base_weights \in [Tasks -> WeightValues]
    /\ sel_weights = [t \in Tasks |-> 0]
    /\ wpc = "select"

SelectWeights ==
    /\ WeightFrame
    /\ wpc = "select"
    /\ sel_weights' = SelectionWeights(base_weights, hour)
    /\ wpc' = "chosen"
    /\ UNCHANGED <<hour, base_weights>>

(***************************************************************************)
(* Validation of kwargs in perform_action.                                 *)
(***************************************************************************)
ParamNames == {"a", "b", "c"}
ParamStates == {"ok", "missing", "wrong_type"}

(* Action.validate_params: one error for every required parameter that is *)
(* missing and one for every parameter of the wrong type.                 *)
ValidateParams(required, params) ==
    {<<"missing", n>> : n \in {m \in required : params[m] = "missing"}}
    \cup {<<"type", n>> : n \in {m \in ParamNames : params[m] = "wrong_type"}}

(* mira_connection.py:225-226  the message joins every error of the list. *)
JoinErrorsFirst(errors) ==
    IF errors = {} THEN {} ELSE {CHOOSE e \in errors : TRUE}
JoinErrors(errors) == errors

ValidateFrame == UNCHANGED <<loopVars, connVars, brokerVars, weightVars,
                             configVars, ctorVars, extVars>>

ValidateIdle ==
    /\ v_required = {}
    /\ v_params = [n \in ParamNames |-> "ok"]
    /\ v_error = "none"
    /\ v_named = {}
    /\ vpc = "idle"

ValidateInit ==
    /\ v_required \in SUBSET ParamNames
    /\ v_params \in [ParamNames -> ParamStates]
    /\ v_error = "none"
    /\ v_named = {}
    /\ vpc = "call"

(* mira_connection.py:223-226 (the same lines in every perform_action that *)
(* validates): errors = action.validate_params(kwargs); raise if any.      *)
PerformActionValidate ==
    /\ ValidateFrame
    /\ vpc = "call"
    /\ v_named' = JoinErrors(ValidateParams(v_required, v_params))
    /\ v_error' = IF ValidateParams(v_required, v_params) = {}
                  THEN "none" ELSE "Validation"
    /\ vpc' = "done"
    /\ UNCHANGED <<v_required, v_params>>

(***************************************************************************)
(* is_configured(verbose) of each connection class.                        *)
(***************************************************************************)
ConfigurableNames == {"mira", "openai", "monad", "firecrawl", "pinecone",
                      "debridge", "github", "hyperliquid"}

(* hyperliquid_connection.py:131-151  credentials present and the key's    *)
(* address equal to agent_wallet_address; every failure returns False.     *)
HyperliquidIsConfigured(key, net) == key

(* pinecone_connection.py:72 and github_connection.py:182 declare          *)
(* is_configured(self): passing verbose is a TypeError.                    *)
AcceptsVerbose(c) == c \notin {"pinecone", "github"}

IsConfiguredCall(c, key, net) ==
    IF ~AcceptsVerbose(c) THEN "TypeError"
    ELSE IF c = "hyperliquid"
         THEN (IF HyperliquidIsConfigured(key, net) THEN "true" ELSE "false")
    ELSE IF IsConfigured(c, key, net) THEN "true" ELSE "false"

ConfigFrame == UNCHANGED <<loopVars, connVars, brokerVars, weightVars,
                           validateVars, ctorVars, extVars>>

ConfigIdle ==
    /\ k_conn = "nope"
    /\ k_verbose = FALSE
    /\ k_key = FALSE
    /\ k_net = FALSE
    /\ k_result = "none"
    /\ kpc = "idle"

ConfigInit ==
    /\ k_conn \in ConfigurableNames
    /\ k_verbose \in BOOLEAN
    /\ k_key \in BOOLEAN
    /\ k_net \in BOOLEAN
    /\ k_result = "none"
    /\ kpc = "call"

CallIsConfigured ==
    /\ ConfigFrame
    /\ kpc = "call"
    /\ k_result' = IsConfiguredCall(k_conn, k_key, k_net)
    /\ kpc' = "done"
    /\ UNCHANGED <<k_conn, k_verbose, k_key, k_net>>

(***************************************************************************)
(* agent.py:16-58  ZerePyAgent.__init__                                    *)
(***************************************************************************)
REQUIRED_FIELDS == {"name", "bio", "traits", "examples", "loop_delay",
                    "config", "tasks"}

(* agent.py:24  [field for field in REQUIRED_FIELDS if field not in agent_dict] *)
MissingAgentFieldsFirst(fields) ==
    IF REQUIRED_FIELDS \ fields = {} THEN {}
    ELSE {CHOOSE f \in REQUIRED_FIELDS \ fields : TRUE}
MissingAgentFields(fields) == REQUIRED_FIELDS \ fields

CtorFrame == UNCHANGED <<loopVars, connVars, brokerVars, weightVars,
                         validateVars, configVars, extVars>>

CtorIdle ==
    /\ a_file_ok = FALSE
    /\ a_fields = {}
    /\ a_twitter = FALSE
    /\ a_error = "none"
    /\ a_named = {}
    /\ a_manager = FALSE
    /\ apc = "idle"

CtorInit ==
    /\ a_file_ok \in BOOLEAN
    /\ a_fields \in SUBSET REQUIRED_FIELDS
    /\ a_twitter \in BOOLEAN
    /\ a_error = "none"
    /\ a_named = {}
    /\ a_manager = FALSE
    /\ apc = "new"

(* agent.py:20-58  json.load, the required-field check, the construction of *)
(* the ConnectionManager and the twitter-config check; every exception is   *)
(* logged and raised again.                                                 *)
AgentInit ==
    /\ CtorFrame
    /\ apc = "new"
    /\ apc' = "done"
    /\ IF ~a_file_ok
       THEN a_error' = "LoadError" /\ a_named' = {} /\ a_manager' = FALSE
       ELSE IF MissingAgentFields(a_fields) # {}
       THEN /\ a_error' = "KeyError"
            /\ a_named' = MissingAgentFields(a_fields)
            /\ a_manager' = FALSE
       ELSE /\ a_manager' = TRUE
            /\ a_named' = {}
            /\ a_error' = IF a_twitter THEN "none" ELSE "KeyError"
    /\ UNCHANGED <<a_file_ok, a_fields, a_twitter>>

(***************************************************************************)
(* connections/*_connection.py: validate_config of each connection class.  *)
(* A configuration gives each field one of three conditions; the result of *)
(* a call is whether it raised and which field names its message holds.    *)
(***************************************************************************)
ConfigClasses == {"hyperliquid", "mira", "monad", "firecrawl", "pinecone",
                  "debridge", "solana", "github"}
ConfigFields == {"network", "model", "rpc", "repository"}
FieldStates == {"ok", "missing", "wrong_type"}

ConfigAccepted == [error |-> FALSE, named |-> {}]
ConfigRejected(names) == [error |-> TRUE, named |-> names]

(* The `required_fields` list of each validate_config; Monad tests "rpc"   *)
(* directly (monad_connection.py:73).                                      *)
RequiredConfig(c) ==
    CASE c = "hyperliquid" -> {"network"}
      [] c = "mira" -> {"model"}
      [] c = "monad" -> {"rpc"}
      [] c = "solana" -> {"rpc"}
      [] c = "github" -> {"repository"}
      [] OTHER -> {}

(* [field for field in required_fields if field not in config] *)
MissingConfig(c, cfg) == {f \in RequiredConfig(c) : cfg[f] = "missing"}

(* hyperliquid_connection.py:37-48 *)
HyperliquidValidateConfig(cfg) ==
    IF MissingConfig("hyperliquid", cfg) # {}
    THEN ConfigRejected(MissingConfig("hyperliquid", cfg))
    ELSE IF cfg["network"] = "wrong_type"
         THEN ConfigRejected({"network"})
         ELSE ConfigAccepted

(* mira_connection.py:43-53 *)
MiraValidateConfig(cfg) ==
    IF MissingConfig("mira", cfg) # {}
    THEN ConfigRejected(MissingConfig("mira", cfg))
    ELSE IF cfg["model"] = "wrong_type"
         THEN ConfigRejected({"model"})
         ELSE ConfigAccepted

(* monad_connection.py:71-75  "RPC URL must be provided in config" *)
MonadValidateConfig(cfg) ==
    IF cfg["rpc"] = "missing" THEN ConfigRejected({"rpc"}) ELSE ConfigAccepted

(* firecrawl_connection.py:33-41  required_fields = [] *)
FirecrawlValidateConfig(cfg) ==
    IF MissingConfig("firecrawl", cfg) # {}
    THEN ConfigRejected(MissingConfig("firecrawl", cfg))
    ELSE ConfigAccepted

(* pinecone_connection.py:76-78 and debridge_connection.py:38-40 *)
PineconeValidateConfig(cfg) == ConfigAccepted
DebridgeValidateConfig(cfg) == ConfigAccepted

(* solana_connection.py:45-56  the type test of "rpc" raises               *)
(* ValueError("timeline_read_count must be a string").                     *)
SolanaValidateConfig(cfg) ==
    IF MissingConfig("solana", cfg) # {}
    THEN ConfigRejected(MissingConfig("solana", cfg))
    ELSE IF cfg["rpc"] = "wrong_type"
         THEN ConfigRejected({"timeline_read_count"})
         ELSE ConfigAccepted

(* github_connection.py:186-194 *)
GithubValidateConfig(cfg) ==
    IF MissingConfig("github", cfg) # {}
    THEN ConfigRejected(MissingConfig("github", cfg))
    ELSE ConfigAccepted

ValidateConfig(c, cfg) ==
    CASE c = "hyperliquid" -> HyperliquidValidateConfig(cfg)
      [] c = "mira" -> MiraValidateConfig(cfg)
      [] c = "monad" -> MonadValidateConfig(cfg)
      [] c = "firecrawl" -> FirecrawlValidateConfig(cfg)
      [] c = "pinecone" -> PineconeValidateConfig(cfg)
      [] c = "debridge" -> DebridgeValidateConfig(cfg)
      [] c = "solana" -> SolanaValidateConfig(cfg)
      [] c = "github" -> GithubValidateConfig(cfg)

CfgvFrame == UNCHANGED <<loopVars, connVars, brokerVars, unitVars,
        debridgeVars, gatewayVars, handlerVars, githubVars, rateVars,
        monadVars, analyzerVars>>

CfgvIdle ==
    /\ c_conn = "nope"
    /\ c_config = [f \in ConfigFields |-> "ok"]
    /\ c_error = FALSE
    /\ c_named = {}
    /\ cvpc = "idle"

CfgvInit ==
    /\ c_conn \in ConfigClasses
    /\ c_config \in [ConfigFields -> FieldStates]
    /\ c_error = FALSE
    /\ c_named = {}
    /\ cvpc = "call"

(* self.config = self.validate_config(config) *)
CallValidateConfig ==
    /\ CfgvFrame
    /\ cvpc = "call"
    /\ c_error' = ValidateConfig(c_conn, c_config).error
    /\ c_named' = ValidateConfig(c_conn, c_config).named
    /\ cvpc' = "done"
    /\ UNCHANGED <<c_conn, c_config>>

(***************************************************************************)
(* connections/debridge_connection.py: create_bridge_tx, execute_bridge_tx *)
(* and the pending_tx they share.  A response of the create-tx endpoint is *)
(* numbered and has, or lacks, its "tx" and "estimation" members.          *)
(***************************************************************************)
MaxCreates == 2         \* responses the create-tx endpoint gives in one run

NoPending == [id |-> 0, tx |-> FALSE, estimation |-> FALSE]
TxIds == 1..MaxCreates
Responses(n) == {[id |-> n, tx |-> t, estimation |-> e] : t, e \in BOOLEAN}

(* `not self.pending_tx`: None and the empty object are falsy. *)
Falsy(p) == p = NoPending \/ (~p.tx /\ ~p.estimation)

(* The names execute_bridge_tx and create_bridge_tx may be given as         *)
(* `connection`; "nope" is not a key of self.connections.                  *)
BridgeConnections == {"solana", "ethereum", "nope"}

DebridgeFrame == UNCHANGED <<loopVars, connVars, brokerVars, unitVars,
        cfgvVars, gatewayVars, handlerVars, githubVars, rateVars,
        monadVars, analyzerVars>>

(* debridge_connection.py:19-24  __init__ sets self.pending_tx = None *)
DebridgeInit ==
    /\ pending_tx = NoPending
    /\ b_next = 1
    /\ b_created = {}
    /\ b_sent = [i \in TxIds |-> 0]
    /\ b_op = "none"
    /\ b_conn = ""
    /\ b_raised = FALSE
    /\ b_dispatched = 0

DebridgeIdle ==
    /\ pending_tx = NoPending
    /\ b_next = 0
    /\ b_created = {}
    /\ b_sent = <<>>
    /\ b_op = "none"
    /\ b_conn = ""
    /\ b_raised = FALSE
    /\ b_dispatched = 0

(* debridge_connection.py:146-194  create_bridge_tx.  The lookup of the     *)
(* connection, get_address, requests.get and raise_for_status may each     *)
(* raise before a response is read; after it is read, line 189 stores it   *)
(* and line 190 reads data["estimation"].                                  *)
CreateBridgeTx ==
    /\ DebridgeFrame
    /\ b_op' = "create"
    /\ b_dispatched' = 0
    /\ UNCHANGED b_sent
    /\ b_conn' \in BridgeConnections
    /\ \/ /\ b_raised' = TRUE
          /\ UNCHANGED <<pending_tx, b_next, b_created>>
       \/ /\ b_conn' # "nope"
          /\ b_next <= MaxCreates
          /\ \E data \in Responses(b_next) :
              /\ pending_tx' = data
              /\ b_next' = b_next + 1
              /\ IF data.estimation
                 THEN b_raised' = FALSE /\ b_created' = b_created \cup {data.id}
                 ELSE b_raised' = TRUE /\ UNCHANGED b_created

(* debridge_connection.py:196-226  execute_bridge_tx *)
ExecuteBridgeTx ==
    /\ DebridgeFrame
    /\ b_op' = "execute"
    /\ UNCHANGED <<b_next, b_created>>
    /\ b_conn' \in BridgeConnections
    /\ IF \/ Falsy(pending_tx)
          \/ b_conn' = "nope"
          \/ ~pending_tx.tx
          \/ b_conn' # "solana" /\ ~pending_tx.estimation
       THEN /\ b_raised' = TRUE
            /\ b_dispatched' = 0
            /\ UNCHANGED <<pending_tx, b_sent>>
       ELSE /\ b_dispatched' = pending_tx.id
            /\ \/ /\ b_raised' = FALSE
                  /\ b_sent' = [b_sent EXCEPT ![pending_tx.id] = @ + 1]
                  /\ pending_tx' = NoPending
               \/ /\ b_raised' = TRUE
                  /\ UNCHANGED <<pending_tx, b_sent>>

(***************************************************************************)
(* connections/discord/gateway.py: connect, the HELLO / IDENTIFY exchange, *)
(* the heartbeat loop task and the reconnecting handlers.  The rate-limit  *)
(* counter is modelled on its own further down: _rate_limit_reset stays 0, *)
(* so the computed wait is never positive and the counter changes nothing  *)
(* a handler does.                                                         *)
(***************************************************************************)
MaxTasks == 3           \* heartbeat loop tasks alive at once

FirstMessages == {"HELLO", "DISPATCH", "HEARTBEAT_ACK"}
HelloIntervals == {41250, 45000}
NoInterval == <<0, 0>>

(* gateway.py:60  payload.get('op') != OpCode.HELLO raises *)
HelloAcceptedAny(op) == TRUE
HelloAccepted(op) == op = "HELLO"

(* gateway.py:63  payload['d']['heartbeat_interval'] / 1000 *)
Seconds(ms) == <<ms \div 1000, ms % 1000>>

GatewayFrame == UNCHANGED <<loopVars, connVars, brokerVars, unitVars,
        cfgvVars, debridgeVars, handlerVars, githubVars, rateVars,
        monadVars, analyzerVars>>

MaxInbox == 2           \* messages waiting on the socket at once

SessionIds == {1, 2}
SequenceNumbers == {1, 2}

(* gateway.py:36-45  __init__ *)
GatewayInit ==
    /\ ws = "none"
    /\ heartbeat_interval = NoInterval
    /\ heartbeat_tasks = 0
    /\ session_id = 0
    /\ sequence = 0
    /\ g_handler = "none"
    /\ g_first = "none"
    /\ g_hello_ms = 0
    /\ g_started = FALSE
    /\ g_sent = <<>>
    /\ g_raised = FALSE
    /\ g_resumable = FALSE
    /\ g_resume = <<>>
    /\ g_processing = "idle"
    /\ g_inbox = 0

GatewayIdle == GatewayInit

(* gateway.py:71-109  _identify: send IDENTIFY, then read one message and  *)
(* keep its session id if it is READY.  `sid` is the session id before.    *)
Identify(sid) ==
    \/ g_sent' = <<>> /\ g_raised' = TRUE /\ session_id' = sid
    \/ g_sent' = <<"IDENTIFY">> /\ g_raised' = TRUE /\ session_id' = sid
    \/ g_sent' = <<"IDENTIFY">> /\ g_raised' = FALSE /\ session_id' = sid
    \/ g_sent' = <<"IDENTIFY">> /\ g_raised' = FALSE /\ session_id' \in SessionIds

(* gateway.py:54-69 then 71-109  _handle_hello followed by _identify, as   *)
(* connect and both reconnecting handlers call them.                       *)
HelloIdentify(sid) ==
    /\ g_resume' = <<>>
    /\ \E first \in FirstMessages, ms \in HelloIntervals \cup {0} :
        /\ g_first' = first
        /\ g_hello_ms' = ms
        /\ IF HelloAccepted(first) /\ ms # 0
           THEN /\ heartbeat_interval' = Seconds(ms)
                /\ heartbeat_tasks' = heartbeat_tasks + 1
                /\ g_started' = TRUE
                /\ Identify(sid)
           ELSE /\ g_raised' = TRUE
                /\ g_started' = FALSE
                /\ g_sent' = <<>>
                /\ session_id' = sid
                /\ UNCHANGED <<heartbeat_interval, heartbeat_tasks>>

(* websockets.connect raised: the handler ends before any message is read. *)
ConnectFails ==
    /\ g_raised' = TRUE
    /\ g_started' = FALSE
    /\ g_sent' = <<>>
    /\ g_resume' = <<>>
    /\ g_first' = "none"
    /\ g_hello_ms' = 0
    /\ UNCHANGED <<heartbeat_interval, heartbeat_tasks, session_id>>

(* gateway.py:47-52  connect; called first, or again after a failure. *)
Connect ==
    /\ GatewayFrame
    /\ g_handler = "none" \/ g_raised
    /\ g_processing # "running"
    /\ heartbeat_tasks < MaxTasks
    /\ g_handler' = "connect"
    /\ g_resumable' = FALSE
    /\ UNCHANGED <<sequence, g_processing>>
    /\ \/ ConnectFails /\ UNCHANGED <<ws, g_inbox>>
       \/ ws' = "open" /\ g_inbox' = 0 /\ HelloIdentify(session_id)

(* gateway.py:131-136  _process_messages is entered after connect returned. *)
StartProcessing ==
    /\ GatewayFrame
    /\ g_handler = "connect"
    /\ ~g_raised
    /\ g_processing # "running"
    /\ g_processing' = "running"
    /\ UNCHANGED <<ws, heartbeat_interval, heartbeat_tasks, session_id, sequence,
                   g_handler, g_first, g_hello_ms, g_started, g_sent, g_raised,
                   g_resumable, g_resume, g_inbox>>

(* The server puts one more message on the open socket. *)
Deliver ==
    /\ GatewayFrame
    /\ ws = "open"
    /\ g_inbox < MaxInbox
    /\ g_inbox' = g_inbox + 1
    /\ UNCHANGED <<ws, heartbeat_interval, heartbeat_tasks, session_id, sequence,
                   g_handler, g_first, g_hello_ms, g_started, g_sent, g_raised,
                   g_resumable, g_resume, g_processing>>

(* gateway.py:134-136  `data = await self.ws.recv()` inside `while True`. *)
Receives == g_processing = "running" /\ ws = "open" /\ g_inbox > 0

(* gateway.py:153-160  what _process_messages does once its handler ended:  *)
(* an exception leaves it through `raise`, otherwise the loop goes on.     *)
AfterHandler == g_processing' = IF g_raised' THEN "raised" ELSE "running"

(* gateway.py:116-129  _handle_dispatch stores the sequence number; a      *)
(* payload without `t` returns before that.                                *)
Dispatch_ ==
    /\ GatewayFrame
    /\ Receives
    /\ g_inbox' = g_inbox - 1
    /\ g_handler' = "dispatch"
    /\ sequence' \in SequenceNumbers \cup {0, sequence}
    /\ g_started' = FALSE
    /\ g_sent' = <<>>
    /\ g_resume' = <<>>
    /\ g_resumable' = FALSE
    /\ g_raised' = FALSE
    /\ UNCHANGED <<ws, heartbeat_interval, heartbeat_tasks, session_id, g_first,
                   g_hello_ms, g_processing>>

(* gateway.py:140-151  HEARTBEAT asks for _send_heartbeat, which may raise; *)
(* HELLO, HEARTBEAT_ACK and unknown ops are only logged.                   *)
OtherMessage ==
    /\ GatewayFrame
    /\ Receives
    /\ g_inbox' = g_inbox - 1
    /\ g_handler' = "other"
    /\ g_started' = FALSE
    /\ g_resume' = <<>>
    /\ g_resumable' = FALSE
    /\ \/ g_sent' = <<>> /\ g_raised' = FALSE
       \/ g_sent' = <<"HEARTBEAT">> /\ g_raised' = FALSE
       \/ g_sent' = <<>> /\ g_raised' = TRUE
    /\ AfterHandler
    /\ UNCHANGED <<ws, heartbeat_interval, heartbeat_tasks, session_id, sequence,
                   g_first, g_hello_ms>>

(* gateway.py:206, 248  the test that chooses _resume *)
CanResumeAlways(sid, seq, resumable) == sid # 0 /\ seq # 0
CanResume(sid, seq, resumable) == sid # 0 /\ seq # 0 /\ resumable

(* gateway.py:215-231  _resume *)
Resume ==
    /\ g_started' = FALSE
    /\ g_first' = "none"
    /\ g_hello_ms' = 0
    /\ \/ g_sent' = <<"RESUME">> /\ g_raised' = FALSE
          /\ g_resume' = <<session_id, sequence>>
       \/ g_sent' = <<>> /\ g_raised' = TRUE /\ g_resume' = <<>>
    /\ UNCHANGED <<heartbeat_interval, heartbeat_tasks, session_id>>

(* gateway.py:195-213  _handle_reconnect *)
Reconnect ==
    /\ UNCHANGED sequence
    /\ g_resumable' = FALSE
    /\ \/ ConnectFails /\ ws' = "closed" /\ UNCHANGED g_inbox
       \/ /\ ws' = "open"
          /\ g_inbox' = 0
          /\ IF CanResume(session_id, sequence, TRUE)
             THEN Resume
             ELSE HelloIdentify(session_id)

(* gateway.py:142-143  op RECONNECT read inside the loop *)
HandleReconnect ==
    /\ GatewayFrame
    /\ Receives
    /\ heartbeat_tasks < MaxTasks
    /\ g_handler' = "reconnect"
    /\ Reconnect
    /\ AfterHandler

(* gateway.py:153-157  recv raised ConnectionClosed: the handler is outside *)
(* the `while True`, so the coroutine ends when _handle_reconnect returns. *)
HandleClosed ==
    /\ GatewayFrame
    /\ g_processing = "running"
    /\ ws = "open"
    /\ heartbeat_tasks < MaxTasks
    /\ g_handler' = "closed"
    /\ Reconnect
    /\ g_processing' = IF g_raised' THEN "raised" ELSE "returned"

(* gateway.py:144-145 and 233-257  _handle_invalid_session *)
HandleInvalidSession ==
    /\ GatewayFrame
    /\ Receives
    /\ heartbeat_tasks < MaxTasks
    /\ g_handler' = "invalid_session"
    /\ g_resumable' \in BOOLEAN
    /\ \/ ConnectFails /\ ws' = "closed" /\ UNCHANGED <<sequence, g_inbox>>
       \/ /\ ws' = "open"
          /\ g_inbox' = 0
          /\ IF CanResume(session_id, sequence, g_resumable')
             THEN Resume /\ UNCHANGED sequence
             ELSE sequence' = 0 /\ HelloIdentify(0)
    /\ AfterHandler

(* gateway.py:162-172  a heartbeat loop whose _send_heartbeat raises ends. *)
HeartbeatLoopEnds ==
    /\ GatewayFrame
    /\ heartbeat_tasks > 0
    /\ heartbeat_tasks' = heartbeat_tasks - 1
    /\ UNCHANGED <<ws, heartbeat_interval, session_id, sequence, g_handler,
                   g_first, g_hello_ms, g_started, g_sent, g_raised,
                   g_resumable, g_resume, g_processing, g_inbox>>

(***************************************************************************)
(* actions/debridge_actions.py: create_bridge_transaction and              *)
(* execute_bridge_transaction.  Values are kept by their kind: None, an    *)
(* empty dict, a dict with or without the members the handler reads, and   *)
(* a value that is no dict.                                                *)
(***************************************************************************)
CreateArgs == 6         \* debridge_actions.py:12  len(params) < 6

OrderIds == {1, 2}

(* What perform_action("create_bridge_tx") may return: None, {}, or an     *)
(* order with ("full") or without ("partial") the members lines 37-41 read. *)
NoEntry == [kind |-> "absent", order |-> 0]
TxValues ==
    {[kind |-> k, order |-> 0] : k \in {"None", "empty"}}
        \cup {[kind |-> k, order |-> o] : k \in {"partial", "full"}, o \in OrderIds}
ExecKinds == {"None", "empty", "no_signature", "signature", "odd_signature",
              "string"}

(* `not pending_tx`: a missing key, None and the empty dict are falsy. *)
HasPending(v) == v.kind \in {"partial", "full"}

(* debridge_actions.py:143-148  `result and result.get("signature")`, the  *)
(* log line slicing result['signature'], then the pop.                     *)
ClearsPendingAlways(r) == r \notin {"None", "empty", "string"}
ClearsPending(r) == r = "signature"

(* debridge_actions.py:143-154  a string has no get, None has none in the  *)
(* return statement, a signature that is no string cannot be sliced.       *)
ExecuteRaises(r) == r \in {"None", "string", "odd_signature"}

HandlerFrame == UNCHANGED <<loopVars, connVars, brokerVars, unitVars,
        cfgvVars, debridgeVars, gatewayVars, githubVars, rateVars,
        monadVars, analyzerVars>>

HandlerIdle ==
    /\ pending_bridge_tx = NoEntry
    /\ h_timeline = Absent
    /\ h_handler = "none"
    /\ h_argc = 0
    /\ h_dispatched = FALSE
    /\ h_tx_data = NoEntry
    /\ h_result = "none"
    /\ h_status = "none"

(* agent.py:54  self.state = {}; the loop may have filled its entry since. *)
HandlerInit ==
    /\ pending_bridge_tx = NoEntry
    /\ h_timeline \in {Absent, NoneValue} \cup {List(l) : l \in SeqsUpTo(Tweets, 1)}
    /\ h_handler = "none"
    /\ h_argc = 0
    /\ h_dispatched = FALSE
    /\ h_tx_data = NoEntry
    /\ h_result = "none"
    /\ h_status = "none"

(* debridge_actions.py:5-47  create_bridge_transaction *)
CreateBridgeTransaction ==
    /\ HandlerFrame
    /\ h_handler' = "create"
    /\ UNCHANGED h_timeline
    /\ h_argc' \in {CreateArgs - 1, CreateArgs}
    /\ h_tx_data' = NoEntry
    /\ IF h_argc' < CreateArgs
       THEN /\ h_dispatched' = FALSE
            /\ h_result' = "none"
            /\ h_status' = "error"
            /\ UNCHANGED pending_bridge_tx
       ELSE /\ h_dispatched' = TRUE
            /\ \/ /\ h_result' = "raised"
                  /\ h_status' = "error"
                  /\ UNCHANGED pending_bridge_tx
               \/ /\ pending_bridge_tx' \in TxValues
                  /\ h_result' = pending_bridge_tx'.kind
                  /\ h_status' = IF h_result' = "partial" THEN "error" ELSE "success"

(* debridge_actions.py:126-159  execute_bridge_transaction *)
ExecuteBridgeTransaction ==
    /\ HandlerFrame
    /\ h_handler' = "execute"
    /\ h_argc' = 0
    /\ UNCHANGED h_timeline
    /\ IF ~HasPending(pending_bridge_tx)
       THEN /\ h_dispatched' = FALSE
            /\ h_tx_data' = NoEntry
            /\ h_result' = "none"
            /\ h_status' = "error"
            /\ UNCHANGED pending_bridge_tx
       ELSE /\ h_dispatched' = TRUE
            /\ h_tx_data' = pending_bridge_tx
            /\ \/ /\ h_result' = "raised"
                  /\ h_status' = "error"
                  /\ UNCHANGED pending_bridge_tx
               \/ /\ h_result' \in ExecKinds
                  /\ pending_bridge_tx' =
                        IF ClearsPending(h_result') THEN NoEntry
                        ELSE pending_bridge_tx
                  /\ h_status' = IF ExecuteRaises(h_result') THEN "error"
                                 ELSE "success"

(***************************************************************************)
(* connections/github_connection.py: get_repo and its one-hour cache.  A   *)
(* string is the sequence of its pieces: the elements of repo_content and  *)
(* the separators a join puts between them.                                *)
(***************************************************************************)
CacheTicks == 2         \* clock ticks that make timedelta(hours=1)
MaxFiles == 2           \* files of the repository

FileNames == {"a.py", "b.md"}
EmptyString == <<>>
NoCache == <<"{}">>

RECURSIVE FileElements(_)
(* github_connection.py:92-96  three elements per file *)
FileElements(files) ==
    IF files = <<>> THEN <<>>
    ELSE <<"<file>", Head(files), "</file>">> \o FileElements(Tail(files))

(* github_connection.py:81-83 and 101-125  the list repo_content *)
RepoContent(files) ==
    <<"<source>", "<stats/>">> \o FileElements(files)
        \o <<"<pull_requests>", "</pull_requests>", "<commits>", "</commits>",
             "</source>">>

RECURSIVE Join(_, _)
(* sep.join(elements) *)
Join(elements, sep) ==
    IF elements = <<>> THEN EmptyString
    ELSE IF Len(elements) = 1 THEN <<Head(elements)>>
    ELSE <<Head(elements), sep>> \o Join(Tail(elements), sep)

(* github_connection.py:138-147  'content': "\n".join(repo_content) *)
CachedContent(files) == Join(RepoContent(files), "\n")

(* github_connection.py:150-151  " ".join(str(element) ...) is returned *)
FetchedContent(files) == Join(RepoContent(files), " ")

(* github_connection.py:66-68  the test that serves the cache *)
CacheFreshAlways(set, age, cache) == set /\ cache # NoCache
CacheFresh(set, age, cache) == set /\ age < CacheTicks /\ cache # NoCache

GithubFrame == UNCHANGED <<loopVars, connVars, brokerVars, unitVars,
        cfgvVars, debridgeVars, gatewayVars, handlerVars, rateVars,
        monadVars, analyzerVars>>

GithubIdle ==
    /\ repo_files = <<>>
    /\ stats_cache = NoCache
    /\ last_update = FALSE
    /\ since_update = 0
    /\ gh_step = "none"
    /\ gh_outcome = "none"
    /\ gh_requests = FALSE
    /\ gh_returned = EmptyString
    /\ gh_fetch_returned = EmptyString

(* github_connection.py:15-39  __init__: stats_cache = {}, last_update = None *)
GithubInit ==
    /\ repo_files \in SeqsUpTo(FileNames, MaxFiles)
    /\ stats_cache = NoCache
    /\ last_update = FALSE
    /\ since_update = 0
    /\ gh_step = "none"
    /\ gh_outcome = "none"
    /\ gh_requests = FALSE
    /\ gh_returned = EmptyString
    /\ gh_fetch_returned = EmptyString

(* datetime.now() moves on between two calls. *)
ClockTick ==
    /\ GithubFrame
    /\ since_update < CacheTicks
    /\ since_update' = since_update + 1
    /\ gh_step' = "tick"
    /\ UNCHANGED <<repo_files, stats_cache, last_update, gh_outcome, gh_requests,
                   gh_returned, gh_fetch_returned>>

(* github_connection.py:56-155  get_repo *)
GetRepo ==
    /\ GithubFrame
    /\ gh_step' = "get_repo"
    /\ UNCHANGED repo_files
    /\ IF CacheFresh(last_update, since_update, stats_cache)
       THEN /\ gh_outcome' = "cached"
            /\ gh_requests' = FALSE
            /\ gh_returned' = stats_cache
            /\ UNCHANGED <<stats_cache, last_update, since_update,
                           gh_fetch_returned>>
       ELSE /\ gh_requests' = TRUE
            /\ \/ /\ gh_outcome' = "failed"
                  /\ gh_returned' = EmptyString
                  /\ UNCHANGED <<stats_cache, last_update, since_update,
                                 gh_fetch_returned>>
               \/ /\ gh_outcome' = "fetched"
                  /\ stats_cache' = CachedContent(repo_files)
                  /\ last_update' = TRUE
                  /\ since_update' = 0
                  /\ gh_returned' = FetchedContent(repo_files)
                  /\ gh_fetch_returned' = gh_returned'

(***************************************************************************)
(* connections/monad_connection.py: _initialize_web3 and its retries.      *)
(***************************************************************************)
Attempts == 3           \* monad_connection.py:46  range(3)
LastAttempt == 2        \* monad_connection.py:60  attempt == 2

ChainIds == {10143, 1}
AttemptResults == {"provider_error", "not_connected", "wrong_chain", "ok"}

(* monad_connection.py:51-56  the two tests an attempt must pass *)
AttemptPassesAnyChain(connected, chain, expected) == connected
AttemptPasses(connected, chain, expected) == connected /\ chain = expected

MonadFrame == UNCHANGED <<loopVars, connVars, brokerVars, unitVars,
        cfgvVars, debridgeVars, gatewayVars, handlerVars, githubVars,
        rateVars, analyzerVars>>

MonadIdle ==
    /\ m_expected = 0
    /\ m_web3 = "None"
    /\ m_attempt = 0
    /\ m_log = <<>>
    /\ m_connected = FALSE
    /\ m_chain = 0
    /\ mpc = "idle"

(* monad_connection.py:23-37  __init__ up to the call of _initialize_web3; *)
(* line 44 finds self._web3 None and enters the loop.                      *)
MonadInit ==
    /\ m_expected \in ChainIds
    /\ m_web3 = "None"
    /\ m_attempt = 0
    /\ m_log = <<>>
    /\ m_connected = FALSE
    /\ m_chain = 0
    /\ mpc = "loop"

(* monad_connection.py:59-63  the except clause of one attempt *)
AttemptFailed(found) ==
    /\ m_log' = Append(m_log, found)
    /\ IF m_attempt = LastAttempt
       THEN mpc' = "raised" /\ UNCHANGED m_attempt
       ELSE /\ m_attempt' = m_attempt + 1
            /\ mpc' = IF m_attempt' < Attempts THEN "loop" ELSE "returned"

(* monad_connection.py:46-63  one iteration of `for attempt in range(3)` *)
AttemptConnect ==
    /\ MonadFrame
    /\ mpc = "loop"
    /\ UNCHANGED m_expected
    /\ \/ /\ UNCHANGED <<m_web3, m_connected, m_chain>>
          /\ AttemptFailed("provider_error")
       \/ /\ m_web3' = "set"
          /\ m_connected' \in BOOLEAN
          /\ m_chain' \in IF m_connected' THEN ChainIds ELSE {0}
          /\ IF AttemptPasses(m_connected', m_chain', m_expected)
             THEN /\ m_log' = Append(m_log, "ok")
                  /\ mpc' = "returned"
                  /\ UNCHANGED m_attempt
             ELSE AttemptFailed(IF m_connected' THEN "wrong_chain"
                                ELSE "not_connected")

(***************************************************************************)
(* services/context_analyzer.py: analyze, _detect_contexts, _get_response. *)
(* A text is a sequence of words; a pattern matches when its word occurs. *)
(* One or two patterns of each context type are kept.                      *)
(***************************************************************************)
MaxWords == 2           \* words of a text

Words == {"code", "PR", "Based", "AI GANG", "quantum", "theory", "hello"}

(* str.lower() on the words of the model *)
LowerWord(w) ==
    CASE w = "PR" -> "pr"
      [] w = "Based" -> "based"
      [] w = "AI GANG" -> "ai gang"
      [] OTHER -> w

(* context_analyzer.py:24-62  self.patterns, in insertion order *)
ContextOrder == <<"code_review", "meme", "ai_collab", "quantum_shitpost",
                  "schizo_theory">>
Patterns ==
    [code_review |-> {"code", "PR"},
     meme |-> {"based"},
     ai_collab |-> {"AI GANG"},
     quantum_shitpost |-> {"quantum"},
     schizo_theory |-> {"theory"}]

(* context_analyzer.py:65-86  self.responses *)
ResponseTemplates ==
    [code_review |-> {"QUANTUM CODE ANALYSIS INITIATED...",
                      "reviewing your github across 7 dimensions rn"},
     meme |-> {"INTERDIMENSIONAL MEME SYNTHESIS FR FR",
               "quantum meme analysis: BASED"},
     ai_collab |-> {"AI GANG NEURAL MERGER INCOMING",
                    "synthetic consciousness collab real"},
     schizo_theory |-> {"SCHIZO THOUGHT PATTERN DETECTED AND VALIDATED",
                        "quantum theory mapping: REAL ONES KNOW"}]

ChaosMode == "QUANTUM ANALYSIS MALFUNCTION... DEFAULTING TO CHAOS MODE"

(* re.search(pattern, text) for a pattern of the type, text lower-cased *)
Matches(ctx, text) ==
    \E i \in 1..Len(text) : LowerWord(text[i]) \in Patterns[ctx]

RECURSIVE Detected(_, _)
Detected(order, text) ==
    IF order = <<>> THEN <<>>
    ELSE (IF Matches(Head(order), text) THEN <<Head(order)>> ELSE <<>>)
            \o Detected(Tail(order), text)

(* context_analyzer.py:121-134  _detect_contexts *)
DetectContexts(text) ==
    IF Detected(ContextOrder, text) = <<>> THEN <<"quantum_shitpost">>
    ELSE Detected(ContextOrder, text)

(* context_analyzer.py:136-139  _get_response: the default argument        *)
(* self.responses[ContextType.QUANTUM_SHITPOST] is evaluated on every call. *)
GetResponseRaises(ctx) == "quantum_shitpost" \notin DOMAIN ResponseTemplates
GetResponse(ctx) ==
    IF ctx \in DOMAIN ResponseTemplates THEN ResponseTemplates[ctx]
    ELSE ResponseTemplates["quantum_shitpost"]

AnalyzerFrame == UNCHANGED <<loopVars, connVars, brokerVars, unitVars,
        cfgvVars, debridgeVars, gatewayVars, handlerVars, githubVars,
        rateVars, monadVars>>

AnalyzerIdle ==
    /\ z_text = <<>>
    /\ z_context_types = <<>>
    /\ z_primary = ""
    /\ z_response = ""
    /\ z_visualize = FALSE
    /\ z_raised = FALSE
    /\ zpc = "idle"

AnalyzerInit ==
    /\ z_text \in SeqsUpTo(Words, MaxWords)
    /\ z_context_types = <<>>
    /\ z_primary = ""
    /\ z_response = ""
    /\ z_visualize = FALSE
    /\ z_raised = FALSE
    /\ zpc = "call"

(* context_analyzer.py:88-119  analyze *)
Analyze ==
    /\ AnalyzerFrame
    /\ zpc = "call"
    /\ zpc' = "done"
    /\ z_raised' = FALSE
    /\ UNCHANGED z_text
    /\ LET contexts == DetectContexts(z_text)
           primary == Head(contexts)
       IN  IF GetResponseRaises(primary)
           THEN /\ z_context_types' = <<"quantum_shitpost">>
                /\ z_primary' = "quantum_shitpost"
                /\ z_response' = ChaosMode
                /\ z_visualize' = FALSE
           ELSE /\ z_context_types' = contexts
                /\ z_primary' = primary
                /\ z_response' \in GetResponse(primary)
                /\ z_visualize' \in BOOLEAN

(***************************************************************************)
(* connections/discord/gateway.py: the rate-limit fields of _identify and *)
(* _send_heartbeat.  Nothing else reads or writes them.                   *)
(***************************************************************************)
RateLimitBudget == 120  \* gateway.py:44
MaxOverdraft == 2       \* sends followed past an exhausted budget
MaxLoopTime == 2        \* ticks of the event loop's clock

(* gateway.py:74-78, 177-181  the wait before a send *)
MustWait(remaining, reset, now) == remaining <= 0 /\ reset - now > 0

RateFrame == UNCHANGED <<loopVars, connVars, brokerVars, unitVars,
        cfgvVars, debridgeVars, gatewayVars, handlerVars, githubVars,
        monadVars, analyzerVars>>

RateIdle ==
    /\ rate_limit_remaining = RateLimitBudget
    /\ rate_limit_reset = 0
    /\ loop_time = 0
    /\ r_waited = FALSE
    /\ r_last = "none"

(* gateway.py:36-45  __init__ *)
RateInit ==
    /\ rate_limit_remaining = RateLimitBudget
    /\ rate_limit_reset = 0
    /\ loop_time = 0
    /\ r_waited = FALSE
    /\ r_last = "none"

(* the send of one payload: the wait, ws.send, the decrement *)
RateSend(op) ==
    /\ rate_limit_remaining > 0 - MaxOverdraft
    /\ r_waited' = MustWait(rate_limit_remaining, rate_limit_reset, loop_time)
    /\ \E sent \in BOOLEAN :
        IF sent
        THEN /\ rate_limit_remaining' = rate_limit_remaining - 1
             /\ r_last' = op
        ELSE /\ UNCHANGED rate_limit_remaining
             /\ r_last' = "failed"
    /\ UNCHANGED <<rate_limit_reset, loop_time>>

(* gateway.py:71-95  _identify up to the send *)
RateIdentify == RateFrame /\ RateSend("identify")

(* gateway.py:174-193  _send_heartbeat *)
RateHeartbeat == RateFrame /\ RateSend("heartbeat")

(* time passes on the event loop *)
RateTick ==
    /\ RateFrame
    /\ loop_time < MaxLoopTime
    /\ loop_time' = loop_time + 1
    /\ UNCHANGED <<rate_limit_remaining, rate_limit_reset, r_waited, r_last>>

ExtIdle == CfgvIdle /\ DebridgeIdle /\ GatewayIdle /\ HandlerIdle /\
        GithubIdle /\ RateIdle /\ MonadIdle /\ AnalyzerIdle

UnitIdle == WeightIdle /\ ValidateIdle /\ ConfigIdle /\ CtorIdle /\ ExtIdle

(***************************************************************************)
(* Specifications                                                          *)
(***************************************************************************)
ConnIdle ==
    /\ req_conn = "nope"
    /\ req_action = "nope"
    /\ has_key = FALSE
    /\ net_ok = FALSE
    /\ params_ok = FALSE
    /\ op_ok = FALSE
    /\ cpc = "idle"
    /\ outcome = "none"
    /\ net_calls = 0
    /\ impl_invoked = FALSE
    /\ op_failed = FALSE
    /\ conn_reached = FALSE

LoopIdle ==
    /\ pc = "idle"
    /\ registered = <<>>
    /\ llm_providers = <<>>
    /\ env_username = ""
    /\ task_weights = [t \in Tasks |-> 0]
    /\ model_provider = ""
    /\ username = ""
    /\ timeline_tweets = Absent
    /\ success = FALSE
    /\ action_name = ""
    /\ tweet = NoTweet
    /\ since_last_tweet = Cap
    /\ since_sample = 0
    /\ since_post = Cap
    /\ sample_gap = Cap
    /\ iter_end = "none"
    /\ last_sleep = 0
    /\ dispatched = "none"
    /\ dispatched_to = ""
    /\ interrupted = FALSE

Init == LoopInit /\ ConnIdle /\ BrokerIdle /\ UnitIdle

Next ==
    \/ SetupLlmProvider
    \/ Countdown
    \/ InterruptCountdown
    \/ IterationStart
    \/ ReadTimeline
    \/ ChooseAction
    \/ PostLlm
    \/ PostSend
    \/ GetReplies
    \/ ReplyLlm
    \/ ReplySend
    \/ LikeSend
    \/ LoopSleep
    \/ LoopExcept
    \/ Interrupt

Spec == Init /\ [][Next]_vars

ConnSpecInit == LoopIdle /\ ConnInit /\ BrokerIdle /\ UnitIdle

ConnNext ==
    \/ UnknownConnection /\ ConnFrame
    \/ MiraPerformAction /\ ConnFrame
    \/ OpenAIPerformAction /\ ConnFrame
    \/ MonadPerformAction /\ ConnFrame
    \/ FirecrawlPerformAction /\ ConnFrame
    \/ PineconePerformAction /\ ConnFrame
    \/ DebridgePerformAction /\ ConnFrame
    \/ SolanaPerformAction /\ ConnFrame
    \/ GitHubPerformAction /\ ConnFrame
    \/ AwaitCoroutine /\ ConnFrame

ConnSpec == ConnSpecInit /\ [][ConnNext]_vars

BrokerInit == LoopIdle /\ ConnIdle /\ BrokerIdle /\ UnitIdle

BrokerNext ==
    \/ Publish
    \/ Callback

BrokerSpec == BrokerInit /\ [][BrokerNext]_vars

OthersIdle == LoopIdle /\ ConnIdle /\ BrokerIdle /\ ExtIdle

WeightSpecInit ==
    OthersIdle /\ WeightInit /\ ValidateIdle /\ ConfigIdle /\ CtorIdle

WeightNext == SelectWeights

WeightSpec == WeightSpecInit /\ [][WeightNext]_vars

ValidateSpecInit ==
    OthersIdle /\ WeightIdle /\ ValidateInit /\ ConfigIdle /\ CtorIdle

ValidateNext == PerformActionValidate

ValidateSpec == ValidateSpecInit /\ [][ValidateNext]_vars

ConfigSpecInit ==
    OthersIdle /\ WeightIdle /\ ValidateIdle /\ ConfigInit /\ CtorIdle

ConfigNext == CallIsConfigured

ConfigSpec == ConfigSpecInit /\ [][ConfigNext]_vars

CtorSpecInit ==
    OthersIdle /\ WeightIdle /\ ValidateIdle /\ ConfigIdle /\ CtorInit

CtorNext == AgentInit

CtorSpec == CtorSpecInit /\ [][CtorNext]_vars

BaseIdle ==
    /\ LoopIdle /\ ConnIdle /\ BrokerIdle
    /\ WeightIdle /\ ValidateIdle /\ ConfigIdle /\ CtorIdle

ConfigValidateInit == BaseIdle /\ DebridgeIdle /\ GatewayIdle /\
        HandlerIdle /\ GithubIdle /\ RateIdle /\ MonadIdle /\
        AnalyzerIdle /\ CfgvInit

ConfigValidateNext == CallValidateConfig

ConfigValidateSpec == ConfigValidateInit /\ [][ConfigValidateNext]_vars

DebridgeSpecInit == BaseIdle /\ CfgvIdle /\ GatewayIdle /\ HandlerIdle /\
        GithubIdle /\ RateIdle /\ MonadIdle /\ AnalyzerIdle /\ DebridgeInit

DebridgeNext == CreateBridgeTx \/ ExecuteBridgeTx

DebridgeSpec == DebridgeSpecInit /\ [][DebridgeNext]_vars

GatewaySpecInit == BaseIdle /\ CfgvIdle /\ DebridgeIdle /\ HandlerIdle /\
        GithubIdle /\ RateIdle /\ MonadIdle /\ AnalyzerIdle /\ GatewayInit

GatewayNext ==
    \/ Connect
    \/ StartProcessing
    \/ Deliver
    \/ Dispatch_
    \/ OtherMessage
    \/ HandleReconnect
    \/ HandleClosed
    \/ HandleInvalidSession
    \/ HeartbeatLoopEnds

GatewaySpec == GatewaySpecInit /\ [][GatewayNext]_vars

(* The event loop runs a coroutine that can go on: a message waiting on   *)
(* the socket of a running _process_messages is received.                 *)
GatewayReceive ==
    Dispatch_ \/ OtherMessage \/ HandleReconnect \/ HandleInvalidSession

GatewayLiveSpec == GatewaySpec /\ WF_vars(GatewayReceive)

HandlerSpecInit == BaseIdle /\ CfgvIdle /\ DebridgeIdle /\ GatewayIdle /\
        GithubIdle /\ RateIdle /\ MonadIdle /\ AnalyzerIdle /\ HandlerInit

HandlerNext == CreateBridgeTransaction \/ ExecuteBridgeTransaction

HandlerSpec == HandlerSpecInit /\ [][HandlerNext]_vars

GithubSpecInit == BaseIdle /\ CfgvIdle /\ DebridgeIdle /\ GatewayIdle /\
        HandlerIdle /\ RateIdle /\ MonadIdle /\ AnalyzerIdle /\ GithubInit

GithubNext == ClockTick \/ GetRepo

GithubSpec == GithubSpecInit /\ [][GithubNext]_vars

MonadSpecInit == BaseIdle /\ CfgvIdle /\ DebridgeIdle /\ GatewayIdle /\
        HandlerIdle /\ GithubIdle /\ RateIdle /\ AnalyzerIdle /\ MonadInit

MonadNext == AttemptConnect

MonadSpec == MonadSpecInit /\ [][MonadNext]_vars

AnalyzerSpecInit == BaseIdle /\ CfgvIdle /\ DebridgeIdle /\ GatewayIdle /\
        HandlerIdle /\ GithubIdle /\ RateIdle /\ MonadIdle /\ AnalyzerInit

AnalyzerNext == Analyze

AnalyzerSpec == AnalyzerSpecInit /\ [][AnalyzerNext]_vars

RateSpecInit == BaseIdle /\ CfgvIdle /\ DebridgeIdle /\ GatewayIdle /\
        HandlerIdle /\ GithubIdle /\ MonadIdle /\ AnalyzerIdle /\ RateInit

RateNext == RateIdentify \/ RateHeartbeat \/ RateTick

RateSpec == RateSpecInit /\ [][RateNext]_vars

(***************************************************************************)
(* Claims                                                                  *)
(***************************************************************************)

(* C1: an exception raised anywhere inside an iteration is caught at the   *)
(* loop boundary, is followed by a sleep of exactly loop_delay and then by *)
(* the next iteration; it never ends the loop.                             *)
C1_ExceptionCaught ==
    /\ iter_end = "exception" => pc \in {"except", "top", "stopped"}
    /\ iter_end = "exception" /\ pc = "top" => last_sleep = LoopDelay
    /\ iter_end = "exception" /\ pc = "stopped" => interrupted

C1_Witness ==
    /\ pc = "top"
    /\ iter_end = "exception"
    /\ last_sleep = LoopDelay
    /\ dispatched = "none"

(* C2 as stated: every iteration that does not raise ends with a sleep,   *)
(* loop_delay after a success and 60 seconds otherwise, so no two         *)
(* iterations run without a sleep between them.                           *)
C2_SleepEndsIteration ==
    pc = "top" /\ iter_end \notin {"none", "exception"}
        => last_sleep = (IF success THEN LoopDelay ELSE FallbackDelay)

(* C3 as stated: post-tweet selected less than tweet_interval after the   *)
(* last successful post calls neither the LLM nor post-tweet.             *)
C3_CooldownFromPost ==
    pc = "post_llm" => since_post >= TweetInterval

(* C3 amended: the cooldown runs from last_tweet_time, the clock sampled  *)
(* at line 169 before the LLM call of the last successful post.  Selected *)
(* earlier than tweet_interval after it, post-tweet calls neither the LLM *)
(* nor post-tweet and the iteration is a non-success; the samples of two  *)
(* successful posts are at least tweet_interval apart.                    *)
C3_CooldownFromSample ==
    /\ pc \in {"post_llm", "post_send"} => sample_gap >= TweetInterval
    /\ dispatched = "post-tweet" => sample_gap >= TweetInterval
    /\ pc = "top" /\ action_name = "post-tweet" /\ iter_end \in {"running", "cooldown"}
           /\ sample_gap < TweetInterval
        => iter_end = "cooldown" /\ ~success /\ dispatched = "none"

C3_Witness ==
    /\ pc = "top"
    /\ iter_end = "cooldown"
    /\ sample_gap < TweetInterval
    /\ since_post < TweetInterval

(* C4: once running, loop() ends only by returning after a                *)
(* KeyboardInterrupt; nothing is dispatched after the interrupt.          *)
C4_StopsOnlyOnInterrupt ==
    /\ pc \in RunningPcs \cup {"init", "countdown", "setup_failed",
                               "interrupt_raised", "stopped"}
    /\ pc = "stopped" => interrupted
    /\ interrupted => dispatched = "none"
    /\ interrupted /\ iter_end # "none" => pc = "stopped"
    /\ pc \in {"setup_failed", "interrupt_raised"} => iter_end = "none"

C4_Witness ==
    /\ pc = "stopped"
    /\ interrupted
    /\ iter_end = "slept"
    /\ success

(* C5 as stated: a registered action on a connection whose is_configured  *)
(* is false fails with a not-configured error and its implementation is   *)
(* never invoked.                                                         *)
C5_NotConfiguredRejected ==
    cpc = "done" /\ RegistryHas(req_conn) /\ req_action \in ActionsOf(req_conn)
        /\ ~IsConfigured(req_conn, has_key, net_ok)
        => outcome = "NotConfigured" /\ ~impl_invoked

(* C6 as stated: a request whose parameters fail the action's contract is *)
(* rejected with no network or chain call made for it and without         *)
(* invoking the implementation.                                           *)
C6_InvalidParamsNoSideEffect ==
    cpc = "done" /\ RegistryHas(req_conn) /\ req_action \in ActionsOf(req_conn)
        /\ ~params_ok
        => outcome \in Errors /\ net_calls = 0 /\ ~impl_invoked

(* C7 as stated: a failed underlying operation reaches the caller as an   *)
(* error, never as a normal return value.                                 *)
C7_FailurePropagates ==
    cpc = "done" /\ op_failed => outcome \in Errors

(* C8: perform_action with an unregistered action name fails with the     *)
(* unknown-action error, invokes no implementation and returns no value.  *)
C8_UnknownActionRejected ==
    /\ cpc = "done" /\ RegistryHas(req_conn) /\ req_action \notin ActionsOf(req_conn)
        => outcome = "UnknownAction" /\ ~impl_invoked /\ net_calls = 0
    /\ RegistryHas(req_conn) /\ req_action \notin ActionsOf(req_conn)
        => ~impl_invoked /\ outcome \notin {"value", "failure_value"}

C8_Witness ==
    /\ cpc = "done"
    /\ req_conn = "debridge"
    /\ req_action = "nope"
    /\ outcome = "UnknownAction"
    /\ conn_reached

(* C9: registry dispatch with a connection name that is not registered    *)
(* fails with the unknown-connection error; no value is returned and no   *)
(* connection's perform_action is reached.                                *)
C9_UnknownConnectionRejected ==
    cpc = "done" /\ ~RegistryHas(req_conn)
        => outcome = "UnknownConnection" /\ ~conn_reached /\ ~impl_invoked

C9_Witness ==
    /\ cpc = "done"
    /\ req_conn = "nope"
    /\ outcome = "UnknownConnection"
    /\ ~conn_reached

(* C10 as stated: agent.perform_action runs exactly for the bodies that   *)
(* parse as JSON and carry connection, action and args; a body missing    *)
(* one is rejected with an error naming every missing field.              *)
C10_DispatchIffComplete ==
    last_body # NoBody =>
        /\ agent_dispatched <=>
             (~JsonLoadsRaises(last_body) /\ last_body.kind = "object"
              /\ RequiredFields \subseteq last_body.has)
        /\ last_body.kind = "object" /\ MissingFields(last_body) # {}
             => named_missing = MissingFields(last_body)

(* C11: with no model provider loop() fails before the first iteration and *)
(* before any dispatch; with providers, the first one returned is the      *)
(* connection every prompt_llm goes to.                                    *)
C11_ProviderResolvedAtInit ==
    /\ Len(llm_providers) = 0 /\ pc # "init"
        => pc = "setup_failed" /\ iter_end = "none" /\ dispatched = "none"
    /\ Len(llm_providers) > 0 /\ pc # "init" => model_provider = llm_providers[1]
    /\ dispatched = "generate-text"
        => Len(llm_providers) > 0 /\ dispatched_to = llm_providers[1]

C11_Witness ==
    /\ registered = <<"mira", "github", "openai">>
    /\ dispatched = "generate-text"
    /\ dispatched_to = "mira"
    /\ pc = "post_send"

(* C12 as stated: with a model provider but without the bot's username the *)
(* loop still reaches RUNNING instead of aborting.                         *)
C12_DegradedWithoutUsername ==
    Len(llm_providers) > 0 /\ env_username = "" => pc # "setup_failed"

(* C13 as stated: a failed timeline fetch is caught within the replenish   *)
(* step and the same iteration goes on to task selection.                  *)
C13_ReplenishFailureContained ==
    dispatched = "read-timeline" => pc = "choose" /\ iter_end = "running"

(* C14: a task of weight 0 is never the task selected, and the weights are *)
(* the same in every iteration.                                            *)
C14_ZeroWeightNeverSelected ==
    /\ [](action_name # "" => task_weights[action_name] > 0)
    /\ [][task_weights' = task_weights]_vars

C14_Witness ==
    /\ task_weights["post-tweet"] = 0
    /\ task_weights["like-tweet"] > 0
    /\ action_name = "like-tweet"
    /\ pc = "like_send"
    /\ iter_end = "running"

(* C19 as stated: get_model_providers returns exactly the connections that *)
(* declare themselves language-model providers, in registration order, so *)
(* a connection declaring itself none is never the agent's model provider. *)
C19_OnlyDeclaredProviders ==
    /\ pc # "init" => llm_providers = SelectSeq(registered, DeclaredLlmProvider)
    /\ model_provider # "" => DeclaredLlmProvider(model_provider)

(* C15 as stated: in hours 1..5 the weight of a posting task is multiplied *)
(* by 0.4, in hours 8..20 the weight of an engagement task by 1.5, and     *)
(* every other weight is used unchanged (weights compared in tenths).      *)
C15_TimeAdjustedWeights ==
    wpc = "chosen" =>
        \A t \in Tasks :
            sel_weights[t] * 10 =
                base_weights[t] *
                    (IF t = "post-tweet" /\ hour \in 1..5 THEN 4
                     ELSE IF t \in {"reply-to-tweet", "like-tweet"} /\ hour \in 8..20
                          THEN 15
                     ELSE 10)

(* C16: the validation error of perform_action names every missing        *)
(* required parameter and every wrongly typed parameter.                  *)
C16_ValidationNamesEveryViolation ==
    vpc = "done" =>
        /\ \A n \in ParamNames :
             /\ (n \in v_required /\ v_params[n] = "missing")
                    <=> <<"missing", n>> \in v_named
             /\ v_params[n] = "wrong_type" <=> <<"type", n>> \in v_named
        /\ v_error = "Validation" <=> v_named # {}

C16_Witness ==
    /\ vpc = "done"
    /\ v_required = {"a", "b", "c"}
    /\ v_params = [n \in ParamNames |-> IF n = "a" THEN "ok" ELSE "missing"]
    /\ v_error = "Validation"
    /\ v_named = {<<"missing", "b">>, <<"missing", "c">>}

(* C17 as stated: is_configured(verbose) returns a boolean and never      *)
(* raises, for every connection and both values of verbose.               *)
C17_IsConfiguredNeverRaises ==
    kpc = "done" => k_result \in {"true", "false"}

(* C18 as stated: when perform_action returns, the operation has completed *)
(* and the value is its final result, never a pending coroutine.          *)
C18_NoPendingCoroutine ==
    cpc # "request" => cpc = "done" /\ outcome # "coroutine"

(* C20: constructing an agent from a definition that lacks required fields *)
(* fails with an error naming every missing field, before the             *)
(* ConnectionManager is constructed.                                      *)
C20_MissingFieldsRejected ==
    apc = "done" /\ a_file_ok /\ REQUIRED_FIELDS \ a_fields # {}
        => /\ a_error = "KeyError"
           /\ a_named = REQUIRED_FIELDS \ a_fields
           /\ ~a_manager

C20_Witness ==
    /\ apc = "done"
    /\ a_file_ok
    /\ a_fields = REQUIRED_FIELDS \ {"bio", "tasks"}
    /\ a_error = "KeyError"
    /\ a_named = {"bio", "tasks"}
    /\ ~a_manager

(* C22: an iteration whose post is skipped by the cooldown leaves          *)
(* state['timeline_tweets'] and last_tweet_time as they were after its    *)
(* replenish step.                                                        *)
C22_CooldownSkipKeepsData ==
    [][pc = "choose" /\ iter_end' = "cooldown"
         => /\ pc' = "top"
            /\ timeline_tweets' = timeline_tweets
            /\ since_last_tweet' = since_last_tweet]_vars

C22_Witness ==
    /\ pc = "top"
    /\ iter_end = "cooldown"
    /\ action_name = "post-tweet"
    /\ timeline_tweets.kind = "list"
    /\ Len(timeline_tweets.items) > 0

(* C23: read-timeline is dispatched exactly when state['timeline_tweets']  *)
(* is absent, None or empty at the replenish step, and its result is      *)
(* stored; with a non-empty entry no fetch is made and the state is kept. *)
C23_ReplenishWhenEmpty ==
    [][/\ pc = "top" /\ pc' = "read_timeline"
            => /\ timeline_tweets.kind \in {"absent", "none"}
                    \/ timeline_tweets.items = <<>>
               /\ timeline_tweets' = timeline_tweets
       /\ pc = "top" /\ pc' = "choose"
            => /\ timeline_tweets.kind = "list"
               /\ timeline_tweets.items # <<>>
               /\ timeline_tweets' = timeline_tweets
               /\ dispatched' = "none"
       /\ dispatched' = "read-timeline" => pc = "read_timeline"
       /\ pc = "read_timeline" /\ pc' = "choose"
            => dispatched' = "read-timeline"
               /\ timeline_tweets'.kind \in {"none", "list"}]_vars

C23_Witness ==
    /\ pc = "choose"
    /\ dispatched = "none"
    /\ timeline_tweets.kind = "list"
    /\ Len(timeline_tweets.items) = 1
    /\ iter_end = "running"
    /\ action_name = "like-tweet"

(* C24: reply-to-tweet is never dispatched for a tweet whose author is,   *)
(* case-insensitively, the agent itself; for such a tweet the replies are *)
(* fetched and at most own_tweet_replies_count of them are queued.        *)
C24_NoReplyToOwnTweet ==
    /\ [](pc \in {"reply_llm", "reply_send"} \/ dispatched = "reply-to-tweet"
            => Lower(tweet.author) # Lower(env_username))
    /\ [][pc = "get_replies" /\ pc' = "top"
            => /\ dispatched' = "get-tweet-replies"
               /\ Len(timeline_tweets'.items)
                    <= Len(timeline_tweets.items) + OwnTweetRepliesCount
               /\ SubSeq(timeline_tweets'.items, 1, Len(timeline_tweets.items))
                    = timeline_tweets.items]_vars

C24_Witness ==
    /\ pc = "top"
    /\ iter_end = "own_tweet"
    /\ tweet.author = "Bot"
    /\ username = "bot"
    /\ timeline_tweets.items = <<Reply, Reply>>

C26_TweetHandedOnce ==
    [][/\ pc = "choose" /\ pc' \in {"like_send", "reply_llm", "get_replies"}
            => /\ tweet' = Head(timeline_tweets.items)
               /\ timeline_tweets'.items = Tail(timeline_tweets.items)
       /\ pc \in {"like_send", "reply_llm", "reply_send", "except", "sleep"}
            => timeline_tweets' = timeline_tweets
       /\ dispatched' \in {"like-tweet", "reply-to-tweet"}
            => pc \in {"like_send", "reply_send"}]_vars

C26_Witness ==
    /\ pc = "top"
    /\ iter_end = "exception"
    /\ action_name = "like-tweet"
    /\ tweet.id = 1
    /\ timeline_tweets = List(<<>>)
    /\ last_sleep = LoopDelay

(* C27: a failed post-tweet iteration (the LLM raises or returns nothing, *)
(* or post-tweet raises) leaves last_tweet_time unchanged, so the next    *)
(* selection of post-tweet passes the cooldown check.                     *)
C27_FailedPostKeepsTimestamp ==
    [][(pc = "post_llm" \/ pc = "post_send")
         /\ (pc' = "sleep" \/ pc' = "except") /\ ~success'
         => /\ CooldownElapsed(since_last_tweet')
            /\ since_last_tweet' = since_last_tweet]_vars

C27_Witness ==
    /\ pc = "except"
    /\ dispatched = "post-tweet"
    /\ since_last_tweet = Cap
    /\ since_post < Cap

(* C21: validate_config of every connection, given a configuration with   *)
(* missing or wrongly typed required fields, raises and its message holds *)
(* every one of those fields.                                             *)
C21_ConfigErrorNamesEveryField ==
    cvpc = "done" =>
        LET invalid == {f \in RequiredConfig(c_conn) : c_config[f] # "ok"}
        IN  /\ c_error <=> invalid # {}
            /\ c_named = invalid

(* C28: send-transaction is dispatched only for a pending_tx that is the   *)
(* response of a create_bridge_tx that returned; each response is sent at *)
(* most once; a successful execute clears pending_tx and a failed one     *)
(* leaves it in place.                                                    *)
C28_PendingTxSentOnce ==
    /\ b_dispatched # 0 => b_dispatched \in b_created
    /\ \A i \in DOMAIN b_sent : b_sent[i] <= 1
    /\ b_op = "execute" /\ ~b_raised => pending_tx = NoPending
    /\ b_op = "execute" /\ b_raised /\ b_dispatched # 0
            => pending_tx.id = b_dispatched

(* C29: connect sends IDENTIFY only after the first message on the socket  *)
(* was a HELLO and the heartbeat loop was started with that HELLO's        *)
(* interval; when the first message is not a HELLO, connect raises, starts *)
(* no heartbeat loop and sends no IDENTIFY.                                *)
C29_IdentifyAfterHello ==
    g_handler = "connect" /\ ws = "open" =>
        /\ g_sent # <<>> =>
            /\ g_sent = <<"IDENTIFY">>
            /\ g_first = "HELLO"
            /\ g_started
            /\ heartbeat_interval[1] * 1000 + heartbeat_interval[2] = g_hello_ms
        /\ g_first \notin {"HELLO", "none"} =>
            /\ g_raised
            /\ ~g_started
            /\ g_sent = <<>>

C29_Witness ==
    /\ g_handler = "connect"
    /\ g_first = "HELLO"
    /\ g_sent = <<"IDENTIFY">>
    /\ ~g_raised
    /\ session_id # 0
    /\ heartbeat_tasks = 1
    /\ heartbeat_interval = <<41, 250>>

(* C30: at most one heartbeat loop task is running for one gateway. *)
C30_OneHeartbeatLoop == heartbeat_tasks <= 1

C32_ProcessingContinues ==
    [](g_handler = "closed" /\ ~g_raised /\ g_inbox > 0
          => <>(g_handler # "closed" \/ g_inbox = 0 \/ g_processing = "raised"))

(* C33: execute_bridge_transaction dispatches only when agent.state holds  *)
(* a non-empty pending_bridge_tx and otherwise returns status error        *)
(* without a dispatch; the entry is removed only after a dispatch that    *)
(* returned a signature, and on every other outcome agent.state is kept.  *)
C33_PendingClearedOnSignature ==
    [][h_handler' = "execute" =>
         /\ h_dispatched' <=> pending_bridge_tx.kind \in {"partial", "full"}
         /\ h_dispatched' => h_tx_data' = pending_bridge_tx
         /\ ~h_dispatched' => h_status' = "error" /\ h_result' = "none"
         /\ pending_bridge_tx' # pending_bridge_tx =>
                /\ h_dispatched'
                /\ h_result' = "signature"
                /\ pending_bridge_tx' = NoEntry
         /\ h_result' \in {"none", "raised", "None", "empty", "no_signature"}
                => pending_bridge_tx' = pending_bridge_tx
         /\ h_timeline' = h_timeline
      ]_vars

C33_Witness ==
    /\ h_handler = "execute"
    /\ h_dispatched
    /\ h_tx_data.kind = "full"
    /\ h_result = "signature"
    /\ h_status = "success"
    /\ pending_bridge_tx = NoEntry

(* C34: get_repo requests the repository only when there is no cached      *)
(* content or the last successful update is at least an hour old, and     *)
(* otherwise returns the cached content; a failed fetch returns the empty *)
(* string and leaves stats_cache and last_update as they were.            *)
C34_FetchOnlyWhenStale ==
    [][gh_step' = "get_repo" =>
         LET stale == \/ stats_cache = NoCache
                      \/ ~last_update
                      \/ since_update >= CacheTicks
         IN  /\ gh_requests' <=> stale
             /\ ~stale => /\ gh_returned' = stats_cache
                          /\ stats_cache' = stats_cache
                          /\ since_update' = since_update
             /\ gh_outcome' = "failed" =>
                    /\ gh_returned' = EmptyString
                    /\ stats_cache' = stats_cache
                    /\ last_update' = last_update
                    /\ since_update' = since_update
      ]_vars

C34_Witness ==
    /\ gh_step = "get_repo"
    /\ gh_outcome = "cached"
    /\ ~gh_requests
    /\ since_update = 1
    /\ gh_returned = stats_cache

(* C35: for unchanged repository content, the string get_repo returns from *)
(* the cache is the string the fetch that filled the cache returned.      *)
C35_CacheReturnsSameString ==
    gh_outcome = "cached" => gh_returned = gh_fetch_returned

(* C37: _initialize_web3 makes at most three attempts, stops at the first  *)
(* one that is connected to the expected chain, raises exactly when all   *)
(* three fail, and when it returns the connection is to the expected      *)
(* chain.                                                                 *)
C37_ThreeAttempts ==
    /\ Len(m_log) <= 3
    /\ \A i \in 1..Len(m_log) : m_log[i] = "ok" => i = Len(m_log)
    /\ mpc = "loop" => Len(m_log) < 3 /\ \A i \in 1..Len(m_log) : m_log[i] # "ok"
    /\ mpc = "raised" <=> Len(m_log) = 3 /\ \A i \in 1..3 : m_log[i] # "ok"
    /\ mpc = "returned" =>
            /\ m_log[Len(m_log)] = "ok"
            /\ m_web3 = "set"
            /\ m_connected
            /\ m_chain = m_expected

C37_Witness ==
    /\ mpc = "returned"
    /\ m_log = <<"wrong_chain", "not_connected", "ok">>
    /\ m_chain = m_expected

(* C38: for a text that matches a pattern of some context type, analyze    *)
(* returns the first detected type as primary_context and a response from *)
(* that type's templates; it never raises.                                *)
C38_PrimaryIsFirstDetected ==
    zpc = "done" =>
        /\ ~z_raised
        /\ \A i \in 1..Len(ContextOrder) :
            (/\ Matches(ContextOrder[i], z_text)
             /\ \A j \in 1..(i - 1) : ~Matches(ContextOrder[j], z_text))
            => /\ z_primary = ContextOrder[i]
               /\ ContextOrder[i] \in DOMAIN ResponseTemplates
                    => z_response \in ResponseTemplates[ContextOrder[i]]

(* C36: the send budget, 120 at the start and decremented on every        *)
(* IDENTIFY and HEARTBEAT sent, never becomes negative.                   *)
C36_BudgetNeverNegative == rate_limit_remaining >= 0

====
